---- MODULE Spec2Model ----
(***************************************************************************)
(* go-icap: the ICAP response writer (response.go), the request reader     *)
(* (request.go), the connection server and the accept loop (server.go).    *)
(*                                                                         *)
(* Bytes are modelled line by line: one token stands for one line of the   *)
(* wire format (a status line, a header line, a blank line, a chunk-size   *)
(* line) or for one byte of body data, and every length and offset counts  *)
(* tokens.  Header values and the Encapsulated manifest are real strings,  *)
(* formatted and parsed character by character.                            *)
(*                                                                         *)
(* Where a computed value is used many times it is bound once, with        *)
(*   CHOOSE r \in {e(v) : v \in {x}} : TRUE                                 *)
(* which is LET v == x IN e(v) with x evaluated a single time.             *)
(***************************************************************************)
EXTENDS Integers, Sequences, FiniteSets, TLC

\* ------------------------------------------------------------------ bounds
NConn == 2
MaxCalls == 3
MaxReqs == 2
MaxTempErr == 1
BufSize == 8
MaxItems == 2
MaxOffset == 1
MaxBody == 2

Conns == 1..NConn

\* ----------------------------------------------------------------- strings
Upper == "ABCDEFGHIJKLMNOPQRSTUVWXYZ"
Lower == "abcdefghijklmnopqrstuvwxyz"
Digits == "0123456789"

Char(s, i) == SubSeq(s, i, i)

\* strings.Index, 1-based: where sep first occurs in s; 0 when it does not.
Index(s, sep) ==
  CHOOSE r \in
    { IF hits = {} THEN 0 ELSE CHOOSE i \in hits : \A j \in hits : i <= j
      : hits \in {{i \in 1..(Len(s) - Len(sep) + 1) : SubSeq(s, i, i + Len(sep) - 1) = sep}} }
    : TRUE

RECURSIVE ToLower(_)
ToLower(s) ==
  IF s = "" THEN ""
  ELSE LET ch == Char(s, 1)
           k == Index(Upper, ch)
       IN (IF k = 0 THEN ch ELSE Char(Lower, k)) \o ToLower(SubSeq(s, 2, Len(s)))

RECURSIVE SplitN(_, _, _)
SplitN(s, sep, n) ==
  CHOOSE r \in
    { IF n = 1 \/ k = 0 THEN <<s>>
      ELSE <<SubSeq(s, 1, k - 1)>> \o SplitN(SubSeq(s, k + Len(sep), Len(s)), sep, n - 1)
      : k \in {Index(s, sep)} } : TRUE

\* strings.Split: no limit on the number of pieces.
Split(s, sep) == SplitN(s, sep, 0)

RECURSIVE DigitsValue(_, _)
DigitsValue(s, acc) ==
  IF s = "" THEN acc
  ELSE LET d == Index(Digits, Char(s, 1))
       IN IF d = 0 THEN -1 ELSE DigitsValue(SubSeq(s, 2, Len(s)), 10 * acc + (d - 1))

\* strconv.Atoi: an optional sign and at least one decimal digit.
Atoi(s) ==
  LET signed == s # "" /\ Char(s, 1) \in {"+", "-"}
      body == IF signed THEN SubSeq(s, 2, Len(s)) ELSE s
      v == IF body = "" THEN -1 ELSE DigitsValue(body, 0)
  IN IF v < 0 THEN [ok |-> FALSE, val |-> 0]
     ELSE [ok |-> TRUE, val |-> IF signed /\ Char(s, 1) = "-" THEN 0 - v ELSE v]

\* Return value if nonempty, def otherwise.
valueOrDefault(value, def) == IF value # "" THEN value ELSE def

\* ------------------------------------------------------------------ tokens
StatusLine(code, text) == [k |-> "status", s |-> text, n |-> code]
HdrLine(key, val) == [k |-> "hdr", s |-> key \o ": " \o val, n |-> 0]
CRLF == [k |-> "crlf", s |-> "", n |-> 0]
HttpLine(text) == [k |-> "http", s |-> text, n |-> 0]
ChunkSize(len) == [k |-> "size", s |-> "", n |-> len]
DataByte(b) == [k |-> "data", s |-> b, n |-> 0]
\* A line of an embedded header whose text the model does not follow.
Opaque == [k |-> "raw", s |-> "", n |-> 0]

\* -------------------------------------------------------------- http.Header
\* A header map: canonical key -> list of values.  KeyOrder lists the keys
\* the model uses in the sorted order Header.Write emits them in.
KeyOrder == <<"Accept", "Connection", "Content-Length", "Content-Type", "Date", "Encapsulated",
              "Host", "Istag", "Server", "Transfer-Encoding">>

EmptyHeader == [x \in {} |-> <<>>]

HeaderSet(h, key, val) ==
  [x \in (DOMAIN h) \cup {key} |-> IF x = key THEN <<val>> ELSE h[x]]

HeaderGet(h, key) == IF key \in DOMAIN h /\ h[key] # <<>> THEN h[key][1] ELSE ""

RECURSIVE HeaderLines(_, _, _, _)
HeaderLines(h, exclude, i, tok) ==
  IF i > Len(KeyOrder) THEN <<>>
  ELSE LET key == KeyOrder[i]
           here == IF key \in DOMAIN h /\ key \notin exclude
                   THEN [j \in 1..Len(h[key]) |-> IF tok = "hdr" THEN HdrLine(key, h[key][j])
                                                  ELSE HttpLine(key \o ": " \o h[key][j])]
                   ELSE <<>>
       IN here \o HeaderLines(h, exclude, i + 1, tok)

\* Header.Write: one line per value, keys sorted.
HeaderWrite(h) == CHOOSE r \in {HeaderLines(v, {}, 1, "hdr") : v \in {h}} : TRUE

\* Header.WriteSubset, as lines of an embedded HTTP header.
HeaderWriteSubset(h, exclude) ==
  CHOOSE r \in {HeaderLines(v, exclude, 1, "http") : v \in {h}} : TRUE

\* time.UTC().Format(http.TimeFormat): the clock's reading.
NowDate == "Mon, 02 Jan 2006 15:04:05 GMT"

\* ------------------------------------------------------------ status table
StatusText(code) ==
  CASE code = 100 -> "Continue"
    [] code = 200 -> "OK"
    [] code = 204 -> "No Content"
    [] code = 400 -> "Bad Request"
    [] code = 401 -> "Unauthorized"
    [] code = 403 -> "Forbidden"
    [] code = 404 -> "Not Found"
    [] code = 405 -> "Method Not Allowed"
    [] code = 408 -> "Request Timeout"
    [] code = 500 -> "Server Error"
    [] code = 501 -> "Method Not Implemented"
    [] code = 502 -> "Bad Gateway"
    [] code = 503 -> "Service Overloaded"
    [] code = 505 -> "ICAP Version Not Supported"
    [] OTHER -> ""

\* net/http's StatusText, for the codes the model's HTTP responses carry.
HTTPStatusText(code) ==
  CASE code = 200 -> "OK"
    [] code = 404 -> "Not Found"
    [] OTHER -> ""

\* ------------------------------------------------------- embedded HTTP
\* An *http.Request or *http.Response handed to WriteHeader, or no message.
\* URL.nil says req.URL == nil; RawURL.parses says whether url.Parse accepts
\* req.RawURL, and RawURL.Host / RawURL.String are the parsed URL's.
NoURL == [nil |-> TRUE, Host |-> "", String |-> ""]
NoRawURL == [parses |-> FALSE, Host |-> "", String |-> ""]

NoMsg ==
  [kind |-> "none", Method |-> "", URL |-> NoURL, RawURL |-> NoRawURL, Host |-> "",
   Proto |-> "", Status |-> "", StatusCode |-> 0, Header |-> EmptyHeader]

ReqMsg ==
  [NoMsg EXCEPT !.kind = "req", !.Method = "POST",
                !.URL = [nil |-> FALSE, Host |-> "", String |-> "/origin-resource/form.pl"],
                !.Host = "www.origin-server.com",
                !.Header = HeaderSet(HeaderSet(EmptyHeader, "Accept", "text/html"),
                                     "Content-Length", "30")]

\* A request built by hand: no URL, and a raw URL that url.Parse rejects.
BadReqMsg == [NoMsg EXCEPT !.kind = "req", !.RawURL = [NoRawURL EXCEPT !.String = "%zz"]]

RespMsg ==
  [NoMsg EXCEPT !.kind = "resp", !.StatusCode = 200,
                !.Header = HeaderSet(HeaderSet(EmptyHeader, "Server", "Apache"),
                                     "Transfer-Encoding", "chunked")]

\* httpRequestHeader: [hdr |-> the header's lines, err |-> whether it failed].
httpRequestHeader(req) ==
  IF req.URL.nil /\ ~req.RawURL.parses THEN [hdr |-> <<>>, err |-> TRUE]
  ELSE LET url == IF req.URL.nil
                  THEN [nil |-> FALSE, Host |-> req.RawURL.Host, String |-> req.RawURL.String]
                  ELSE req.URL
           host == IF url.Host = "" THEN req.Host ELSE url.Host
           header == HeaderSet(req.Header, "Host", host)
           first == valueOrDefault(req.Method, "GET") \o " " \o url.String \o " "
                      \o valueOrDefault(req.Proto, "HTTP/1.1")
       IN [hdr |-> <<HttpLine(first)>>
                     \o HeaderWriteSubset(header, {"Transfer-Encoding", "Content-Length"})
                     \o <<HttpLine("")>>,
           err |-> FALSE]

\* httpResponseHeader: never fails.
httpResponseHeader(resp) ==
  LET text == IF resp.Status # "" THEN resp.Status
              ELSE IF HTTPStatusText(resp.StatusCode) # "" THEN HTTPStatusText(resp.StatusCode)
              ELSE "status code " \o ToString(resp.StatusCode)
      proto == IF resp.Proto = "" THEN "HTTP/1.1" ELSE resp.Proto
  IN [hdr |-> <<HttpLine(proto \o " " \o ToString(resp.StatusCode) \o " " \o text)>>
                \o HeaderWriteSubset(resp.Header, {"Transfer-Encoding", "Content-Length"})
                \o <<HttpLine("")>>,
      err |-> FALSE]

\* ---------------------------------------------------- net/http's readers
\* textproto.CanonicalMIMEHeaderKey: upper case at the start and after a
\* hyphen, lower case elsewhere.
RECURSIVE CanonicalKey(_, _)
CanonicalKey(s, up) ==
  IF s = "" THEN ""
  ELSE LET ch == Char(s, 1)
           u == Index(Upper, ch)
           l == Index(Lower, ch)
       IN (IF up /\ l > 0 THEN Char(Upper, l)
           ELSE IF ~up /\ u > 0 THEN Char(Lower, u) ELSE ch)
            \o CanonicalKey(SubSeq(s, 2, Len(s)), ch = "-")

RECURSIVE TrimSpace(_)
TrimSpace(s) ==
  IF s = "" THEN s
  ELSE IF Char(s, 1) = " " THEN TrimSpace(SubSeq(s, 2, Len(s)))
  ELSE IF Char(s, Len(s)) = " " THEN TrimSpace(SubSeq(s, 1, Len(s) - 1))
  ELSE s

\* Header.Add and Header.Del.
HeaderAdd(h, key, val) ==
  [x \in (DOMAIN h) \cup {key} |->
     IF x = key THEN (IF key \in DOMAIN h THEN h[key] ELSE <<>>) \o <<val>> ELSE h[x]]

HeaderDel(h, key) == [x \in (DOMAIN h) \ {key} |-> h[x]]

\* textproto's ReadMIMEHeader over lines[i..]: "Key: value" lines up to the
\* blank line that ends the header.
RECURSIVE ReadMIMEHeader(_, _, _)
ReadMIMEHeader(lines, i, h) ==
  IF i > Len(lines) THEN [ok |-> FALSE, h |-> h]
  ELSE IF lines[i].s = "" THEN [ok |-> lines[i].k = "http", h |-> h]
  ELSE LET s == lines[i].s
           colon == Index(s, ":")
       IN IF colon = 0 THEN [ok |-> FALSE, h |-> h]
          ELSE ReadMIMEHeader(lines, i + 1,
                 HeaderAdd(h, CanonicalKey(SubSeq(s, 1, colon - 1), TRUE),
                           TrimSpace(SubSeq(s, colon + 1, Len(s)))))

\* The host of a raw URL: "" unless the URL is absolute.
URLHost(raw) ==
  IF Len(raw) >= 7 /\ SubSeq(raw, 1, 7) = "http://"
  THEN LET rest == SubSeq(raw, 8, Len(raw))
           slash == Index(rest, "/")
       IN IF slash = 0 THEN rest ELSE SubSeq(rest, 1, slash - 1)
  ELSE ""

\* http.ReadRequest on a header section: the request line, then the header;
\* the Host line moves from the header map to req.Host.
httpReadRequest(raw) ==
  IF raw = <<>> THEN [ok |-> FALSE, msg |-> NoMsg]
  ELSE LET f == SplitN(raw[1].s, " ", 3)
           mh == ReadMIMEHeader(raw, 2, EmptyHeader)
       IN IF Len(f) < 3 \/ ~mh.ok THEN [ok |-> FALSE, msg |-> NoMsg]
          ELSE IF Len(f[3]) < 5 \/ SubSeq(f[3], 1, 5) # "HTTP/" THEN [ok |-> FALSE, msg |-> NoMsg]
          ELSE [ok |-> TRUE,
                msg |-> [NoMsg EXCEPT
                           !.kind = "req", !.Method = f[1], !.Proto = f[3],
                           !.URL = [nil |-> FALSE, Host |-> URLHost(f[2]), String |-> f[2]],
                           !.RawURL = [parses |-> TRUE, Host |-> URLHost(f[2]), String |-> f[2]],
                           !.Host = IF URLHost(f[2]) = "" THEN HeaderGet(mh.h, "Host")
                                    ELSE URLHost(f[2]),
                           !.Header = HeaderDel(mh.h, "Host")]]

\* http.ReadResponse on a header section: Status is the code and the reason
\* phrase of the status line ("200 OK").
httpReadResponse(raw) ==
  IF raw = <<>> THEN [ok |-> FALSE, msg |-> NoMsg]
  ELSE LET f == SplitN(raw[1].s, " ", 3)
           mh == ReadMIMEHeader(raw, 2, EmptyHeader)
       IN IF Len(f) < 2 \/ ~mh.ok \/ ~Atoi(f[2]).ok THEN [ok |-> FALSE, msg |-> NoMsg]
          ELSE [ok |-> TRUE,
                msg |-> [NoMsg EXCEPT
                           !.kind = "resp", !.Proto = f[1],
                           !.Status = f[2] \o " " \o (IF Len(f) > 2 THEN f[3] ELSE ""),
                           !.StatusCode = Atoi(f[2]).val,
                           !.Header = mh.h]]

\* http.NewChunkedReader read to the end (ioutil.ReadAll): the bytes of the
\* chunks up to the chunk of size 0.
RECURSIVE ChunkedRead(_)
ChunkedRead(b) ==
  IF b = <<>> \/ Head(b).k # "size" THEN [data |-> <<>>, ok |-> FALSE]
  ELSE LET n == Head(b).n
       IN IF n = 0 THEN [data |-> <<>>, ok |-> TRUE]
          ELSE IF Len(b) < n + 2 THEN [data |-> <<>>, ok |-> FALSE]
          ELSE IF (\E i \in 2..(n + 1) : b[i].k # "data") \/ b[n + 2].k # "crlf"
               THEN [data |-> <<>>, ok |-> FALSE]
          ELSE LET rest == ChunkedRead(SubSeq(b, n + 3, Len(b)))
               IN [data |-> [i \in 1..n |-> b[i + 1].s] \o rest.data, ok |-> rest.ok]

\* ------------------------------------------------------------ bufio.Writer
\* out = [buf |-> tokens held by the bufio.Writer, wire |-> tokens handed to
\* the net.Conn].
Flush(o) == CHOOSE r \in {[buf |-> <<>>, wire |-> b.wire \o b.buf] : b \in {o}} : TRUE

\* One Write(p) call: p is copied if it fits; otherwise the buffer is filled
\* and flushed, or p goes straight to the net.Conn when the buffer is empty,
\* and what is left is copied.
BufWrite(o, p) ==
  CHOOSE r \in
    { LET avail == BufSize - Len(b.buf)
          rest == SubSeq(p, avail + 1, Len(p))
      IN IF Len(p) <= avail THEN [buf |-> b.buf \o p, wire |-> b.wire]
         ELSE IF b.buf = <<>> THEN [buf |-> <<>>, wire |-> b.wire \o p]
         ELSE IF Len(rest) > BufSize THEN [buf |-> <<>>, wire |-> b.wire \o b.buf \o p]
         ELSE [buf |-> rest, wire |-> b.wire \o b.buf \o SubSeq(p, 1, avail)]
      : b \in {o} } : TRUE

\* A run of one-line writes (Fprintf, WriteString): the buffer is flushed
\* each time a line finds it full.
BufWriteLines(o, lines) ==
  CHOOSE r \in
    { LET cut == IF all = <<>> THEN 0 ELSE ((Len(all) - 1) \div BufSize) * BufSize
      IN [buf |-> SubSeq(all, cut + 1, Len(all)), wire |-> o.wire \o SubSeq(all, 1, cut)]
      : all \in {o.buf \o lines} } : TRUE

\* ------------------------------------------------------------ ReadRequest
\* One ICAP message as the peer sent it:
\*   eof        the stream ends before a first line is read
\*   line       the request line
\*   urlOk      http.ParseRequestURL accepts the raw URL
\*   hdrOk      textproto's ReadMIMEHeader accepts the header block
\*   encap      the Encapsulated header's value ("" when the header is absent)
\*   avail      how much of the encapsulation region arrives before the body
\*   region     the lines of the encapsulation region that arrive
\*   body       what follows the region on the stream: the chunked body
\*   reqParses  http.ReadRequest accepts the embedded request header
\*   respParses http.ReadResponse accepts the embedded response header
Message(line, encap, avail) ==
  [eof |-> FALSE, line |-> line, urlOk |-> TRUE, hdrOk |-> TRUE, encap |-> encap,
   avail |-> avail, reqParses |-> TRUE, respParses |-> TRUE,
   region |-> [i \in 1..avail |-> Opaque], body |-> <<>>]

\* Nothing read yet.
NoMessage == Message("", "", 0)

BodyKeys == {"req-body", "opt-body", "res-body", "null-body"}

\* A *Request.  Request and Response say what body reader the embedded message
\* has ("nil" when there is no such message); rawReqHdr and rawRespHdr are the
\* header sections the embedded messages were parsed from, and b is what is
\* left on the bufio.Reader the chunked readers read.
NoRequest ==
  [err |-> "", Method |-> "", RawURL |-> "", Proto |-> "", hasBody |-> FALSE,
   initialOffset |-> 0, reqHdrLen |-> 0, respHdrLen |-> 0, consumed |-> 0,
   Request |-> "nil", Response |-> "nil",
   rawReqHdr |-> <<>>, rawRespHdr |-> <<>>, b |-> <<>>]

Failed(what) == [NoRequest EXCEPT !.err = what]

EncapStart ==
  [err |-> "", prevKey |-> "", prevValue |-> 0, initialOffset |-> 0,
   reqHdrLen |-> 0, respHdrLen |-> 0, hasBody |-> FALSE]

\* The loop's turn without the check that a body section is the last one.
EncapItemAnyOrder(st, item) ==
  LET eq == Index(item, "=")
      key == SubSeq(item, 1, eq - 1)
      num == Atoi(SubSeq(item, eq + 1, Len(item)))
      value == num.val
  IN IF st.err # "" THEN st
     ELSE IF eq = 0 \/ ~num.ok THEN [st EXCEPT !.err = "malformed Encapsulated: header"]
     ELSE IF key \notin {"req-hdr", "res-hdr", "null-body", "req-body", "res-body", "opt-body"}
          THEN [st EXCEPT !.err = "invalid key for Encapsulated: header"]
     ELSE [st EXCEPT
             !.initialOffset = IF st.prevKey = "" THEN value ELSE @,
             !.reqHdrLen = IF st.prevKey = "req-hdr" THEN value - st.prevValue ELSE @,
             !.respHdrLen = IF st.prevKey = "res-hdr" THEN value - st.prevValue ELSE @,
             !.hasBody = IF key \in {"req-body", "res-body", "opt-body"} THEN TRUE ELSE @,
             !.prevValue = value,
             !.prevKey = key]

\* The loop's turn without the default case of the key switch.
EncapItemAnyKey(st, item) ==
  LET eq == Index(item, "=")
      key == SubSeq(item, 1, eq - 1)
      num == Atoi(SubSeq(item, eq + 1, Len(item)))
      value == num.val
  IN IF st.err # "" THEN st
     ELSE IF eq = 0 \/ ~num.ok THEN [st EXCEPT !.err = "malformed Encapsulated: header"]
     ELSE IF st.prevKey \in BodyKeys
          THEN [st EXCEPT !.err = st.prevKey \o " must be the last section"]
     ELSE [st EXCEPT
             !.initialOffset = IF st.prevKey = "" THEN value ELSE @,
             !.reqHdrLen = IF st.prevKey = "req-hdr" THEN value - st.prevValue ELSE @,
             !.respHdrLen = IF st.prevKey = "res-hdr" THEN value - st.prevValue ELSE @,
             !.hasBody = IF key \in {"req-body", "res-body", "opt-body"} THEN TRUE ELSE @,
             !.prevValue = value,
             !.prevKey = key]

\* One turn of the loop over the items of the Encapsulated header.
EncapItem(st, item) ==
  LET eq == Index(item, "=")
      key == SubSeq(item, 1, eq - 1)
      num == Atoi(SubSeq(item, eq + 1, Len(item)))
      value == num.val
  IN IF st.err # "" THEN st
     ELSE IF eq = 0 \/ ~num.ok THEN [st EXCEPT !.err = "malformed Encapsulated: header"]
     ELSE IF st.prevKey \in BodyKeys
          THEN [st EXCEPT !.err = st.prevKey \o " must be the last section"]
     ELSE IF key \notin {"req-hdr", "res-hdr", "null-body", "req-body", "res-body", "opt-body"}
          THEN [st EXCEPT !.err = "invalid key for Encapsulated: header"]
     ELSE [st EXCEPT
             !.initialOffset = IF st.prevKey = "" THEN value ELSE @,
             !.reqHdrLen = IF st.prevKey = "req-hdr" THEN value - st.prevValue ELSE @,
             !.respHdrLen = IF st.prevKey = "res-hdr" THEN value - st.prevValue ELSE @,
             !.hasBody = IF key \in {"req-body", "res-body", "opt-body"} THEN TRUE ELSE @,
             !.prevValue = value,
             !.prevKey = key]

RECURSIVE EncapLoop(_, _)
EncapLoop(st, eList) ==
  IF eList = <<>> THEN st
  ELSE CHOOSE r \in {EncapLoop(next, Tail(eList)) : next \in {EncapItem(st, Head(eList))}} : TRUE

ParseEncapsulated(s) ==
  CHOOSE r \in {EncapLoop(EncapStart, eList) : eList \in {Split(s, ", ")}} : TRUE

\* Does the HTTP parser accept a header section: what the message says of
\* it, and for a section whose lines the model follows, what the parser makes
\* of the lines.
Followed(raw) == raw # <<>> /\ \A i \in DOMAIN raw : raw[i].k = "http"
ReqParses(m, raw) == m.reqParses /\ (Followed(raw) => httpReadRequest(raw).ok)
RespParses(m, raw) == m.respParses /\ (Followed(raw) => httpReadResponse(raw).ok)

\* ReadRequest: the request, or a record whose err is not "".
ReadRequest(m) ==
  IF m.eof THEN Failed("unexpected EOF")
  ELSE CHOOSE r \in
    { LET junk == IF st.initialOffset > 0 THEN st.initialOffset ELSE 0
          nReq == IF st.reqHdrLen > 0 THEN st.reqHdrLen ELSE 0
          nResp == IF st.respHdrLen > 0 THEN st.respHdrLen ELSE 0
      IN IF Len(f) < 3 THEN Failed("malformed ICAP request")
         ELSE IF ~m.urlOk THEN Failed("bad URL")
         ELSE IF ~m.hdrOk THEN Failed("malformed MIME header")
         ELSE IF m.encap = "" THEN Failed("missing Encapsulated: header")
         ELSE IF st.err # "" THEN Failed(st.err)
         ELSE IF m.avail < junk + nReq + nResp THEN Failed("short read")
         ELSE IF nReq > 0 /\ ~ReqParses(m, SubSeq(m.region, junk + 1, junk + nReq))
              THEN Failed("error while parsing HTTP request")
         ELSE IF nResp > 0 /\ ~RespParses(m, SubSeq(m.region, junk + nReq + 1,
                                                    junk + nReq + nResp))
              THEN Failed("error while parsing HTTP response")
         ELSE [err |-> "", Method |-> f[1], RawURL |-> f[2], Proto |-> f[3],
               hasBody |-> st.hasBody,
               initialOffset |-> st.initialOffset,
               reqHdrLen |-> st.reqHdrLen,
               respHdrLen |-> st.respHdrLen,
               consumed |-> junk + nReq + nResp,
               Request |-> IF nReq = 0 THEN "nil"
                           ELSE IF st.hasBody /\ f[1] = "REQMOD" THEN "chunked" ELSE "empty",
               Response |-> IF nResp = 0 THEN "nil"
                            ELSE IF st.hasBody /\ f[1] = "RESPMOD" THEN "chunked" ELSE "empty",
               rawReqHdr |-> SubSeq(m.region, junk + 1, junk + nReq),
               rawRespHdr |-> SubSeq(m.region, junk + nReq + 1, junk + nReq + nResp),
               b |-> SubSeq(m.region, junk + nReq + nResp + 1, Len(m.region)) \o m.body]
      : f \in {SplitN(m.line, " ", 3)}, st \in {ParseEncapsulated(m.encap)} } : TRUE

\* ------------------------------------------------------------- respWriter
\* A respWriter is [req, header, wroteHeader, cw]; its conn is the out record
\* passed beside it.  cw is "nil" or "open" (a chunked writer on conn.buf).
NewWriter(req) == [req |-> req, header |-> EmptyHeader, wroteHeader |-> FALSE, cw |-> "nil"]

NoCommit == [done |-> FALSE, code |-> 0, kind |-> "none", hasBody |-> FALSE, hdrLen |-> 0]

\* The embedded HTTP header of WriteHeader's type switch.
MakeHeader(httpMessage) ==
  CASE httpMessage.kind = "req" -> httpRequestHeader(httpMessage)
    [] httpMessage.kind = "resp" -> httpResponseHeader(httpMessage)
    [] OTHER -> [hdr |-> <<>>, err |-> FALSE]

\* The Encapsulated value with offsets that leave the blank line of the
\* embedded header out.
MakeEncapShort(method, httpMessage, hasBody) ==
  LET made == MakeHeader(httpMessage)
      len == ToString(Len(made.hdr) - 1)
  IN IF httpMessage.kind = "req" /\ ~made.err
     THEN IF hasBody THEN "req-hdr=0, req-body=" \o len ELSE "req-hdr=0, null-body=" \o len
     ELSE IF httpMessage.kind = "resp" /\ ~made.err
     THEN IF hasBody THEN "res-hdr=0, res-body=" \o len ELSE "res-hdr=0, null-body=" \o len
     ELSE IF hasBody
          THEN ToLower(IF Len(method) > 3 THEN SubSeq(method, 1, 3) ELSE method) \o "-body=0"
          ELSE "null-body=0"

\* The Encapsulated value of a WriteHeader that goes on after a header that
\* could not be made.
MakeEncapDespiteError(method, httpMessage, hasBody) ==
  LET made == MakeHeader(httpMessage)
      len == ToString(Len(made.hdr))
  IN IF httpMessage.kind = "req"
     THEN IF hasBody THEN "req-hdr=0, req-body=" \o len ELSE "req-hdr=0, null-body=" \o len
     ELSE IF httpMessage.kind = "resp"
     THEN IF hasBody THEN "res-hdr=0, res-body=" \o len ELSE "res-hdr=0, null-body=" \o len
     ELSE IF hasBody
          THEN ToLower(IF Len(method) > 3 THEN SubSeq(method, 1, 3) ELSE method) \o "-body=0"
          ELSE "null-body=0"

\* The value WriteHeader gives the Encapsulated header.
MakeEncap(method, httpMessage, hasBody) ==
  LET made == MakeHeader(httpMessage)
      len == ToString(Len(made.hdr))
  IN IF httpMessage.kind = "req" /\ ~made.err
     THEN IF hasBody THEN "req-hdr=0, req-body=" \o len ELSE "req-hdr=0, null-body=" \o len
     ELSE IF httpMessage.kind = "resp" /\ ~made.err
     THEN IF hasBody THEN "res-hdr=0, res-body=" \o len ELSE "res-hdr=0, null-body=" \o len
     ELSE IF hasBody
          THEN ToLower(IF Len(method) > 3 THEN SubSeq(method, 1, 3) ELSE method) \o "-body=0"
          ELSE "null-body=0"

\* WriteHeader that writes StatusText(code) as it is, empty for a code the
\* table does not have.
commitHeaderTablePhrase(w, o, code, httpMessage, hasBody) ==
  CHOOSE r \in
    { LET h1 == HeaderSet(w.header, "Encapsulated", encap)
          h2 == IF "Date" \in DOMAIN h1 THEN h1 ELSE HeaderSet(h1, "Date", NowDate)
          h3 == HeaderSet(h2, "Connection", "close")
      IN [w |-> [w EXCEPT !.header = h3, !.wroteHeader = TRUE,
                          !.cw = IF hasBody THEN "open" ELSE @],
          out |-> BufWrite(BufWriteLines(o, <<StatusLine(code, StatusText(code))>>
                                              \o HeaderWrite(h3) \o <<CRLF>>), header),
          commit |-> [done |-> TRUE, code |-> code, kind |-> httpMessage.kind,
                      hasBody |-> hasBody, hdrLen |-> Len(header)]]
      : header \in {MakeHeader(httpMessage).hdr},
        encap \in {MakeEncap(w.req.Method, httpMessage, hasBody)} } : TRUE

\* WriteHeader that treats Encapsulated and Connection as it treats Date: set
\* only when the handler set none.
commitHeaderDefaults(w, o, code, httpMessage, hasBody) ==
  CHOOSE r \in
    { LET h1 == IF "Encapsulated" \in DOMAIN w.header THEN w.header
                ELSE HeaderSet(w.header, "Encapsulated", encap)
          h2 == IF "Date" \in DOMAIN h1 THEN h1 ELSE HeaderSet(h1, "Date", NowDate)
          h3 == IF "Connection" \in DOMAIN h2 THEN h2 ELSE HeaderSet(h2, "Connection", "close")
          status == IF StatusText(code) = "" THEN "status code " \o ToString(code)
                    ELSE StatusText(code)
      IN [w |-> [w EXCEPT !.header = h3, !.wroteHeader = TRUE,
                          !.cw = IF hasBody THEN "open" ELSE @],
          out |-> BufWrite(BufWriteLines(o, <<StatusLine(code, status)>> \o HeaderWrite(h3)
                                              \o <<CRLF>>), header),
          commit |-> [done |-> TRUE, code |-> code, kind |-> httpMessage.kind,
                      hasBody |-> hasBody, hdrLen |-> Len(header)]]
      : header \in {MakeHeader(httpMessage).hdr},
        encap \in {MakeEncap(w.req.Method, httpMessage, hasBody)} } : TRUE

\* WriteHeader past its guard: the header map is completed and the status
\* line, the ICAP header, a blank line and the HTTP header go to conn.buf.
commitHeader(w, o, code, httpMessage, hasBody) ==
  CHOOSE r \in
    { LET h1 == HeaderSet(w.header, "Encapsulated", encap)
          h2 == IF "Date" \in DOMAIN h1 THEN h1 ELSE HeaderSet(h1, "Date", NowDate)
          h3 == HeaderSet(h2, "Connection", "close")
          status == IF StatusText(code) = "" THEN "status code " \o ToString(code)
                    ELSE StatusText(code)
      IN [w |-> [w EXCEPT !.header = h3, !.wroteHeader = TRUE,
                          !.cw = IF hasBody THEN "open" ELSE @],
          out |-> BufWrite(BufWriteLines(o, <<StatusLine(code, status)>> \o HeaderWrite(h3)
                                              \o <<CRLF>>), header),
          commit |-> [done |-> TRUE, code |-> code, kind |-> httpMessage.kind,
                      hasBody |-> hasBody, hdrLen |-> Len(header)]]
      : header \in {MakeHeader(httpMessage).hdr},
        encap \in {MakeEncap(w.req.Method, httpMessage, hasBody)} } : TRUE

\* WriteHeader without its wroteHeader guard.
WriteHeaderUnguarded(w, o, cm, code, httpMessage, hasBody) ==
  commitHeader(w, o, code, httpMessage, hasBody)

\* Called twice: logged and ignored.
WriteHeader(w, o, cm, code, httpMessage, hasBody) ==
  IF w.wroteHeader THEN [w |-> w, out |-> o, commit |-> cm]
  ELSE commitHeader(w, o, code, httpMessage, hasBody)

\* http's chunked writer: a chunk per non-empty Write, "0\r\n" on Close.
ChunkedWrite(o, p) ==
  IF p = <<>> THEN o
  ELSE BufWriteLines(BufWrite(BufWriteLines(o, <<ChunkSize(Len(p))>>),
                              [i \in 1..Len(p) |-> DataByte(p[i])]), <<CRLF>>)

ChunkedClose(o) == BufWriteLines(o, <<ChunkSize(0)>>)

\* Write that sends the chunk before it commits the header.
WriteBodyFirst(w, o, cm, p) ==
  LET s == WriteHeader(w, ChunkedWrite(o, p), cm, 200, NoMsg, TRUE)
  IN [w |-> s.w, out |-> s.out, commit |-> s.commit, n |-> Len(p), err |-> FALSE]

\* Write without its check for a writer that has no body.
WriteUnchecked(w, o, cm, p) ==
  LET s == IF ~w.wroteHeader THEN WriteHeader(w, o, cm, 200, NoMsg, TRUE)
           ELSE [w |-> w, out |-> o, commit |-> cm]
  IN [w |-> s.w, out |-> ChunkedWrite(s.out, p), commit |-> s.commit,
      n |-> Len(p), err |-> FALSE]

Write(w, o, cm, p) ==
  CHOOSE r \in
    { IF s.w.cw = "nil"
      THEN [w |-> s.w, out |-> s.out, commit |-> s.commit, n |-> 0, err |-> TRUE]
      ELSE [w |-> s.w, out |-> ChunkedWrite(s.out, p), commit |-> s.commit,
            n |-> Len(p), err |-> FALSE]
      : s \in {IF ~w.wroteHeader THEN WriteHeader(w, o, cm, 200, NoMsg, TRUE)
                ELSE [w |-> w, out |-> o, commit |-> cm]} } : TRUE

\* finishRequest without its default commit.
finishRequestNoCommit(w, o, cm) ==
  LET t == IF w.cw # "nil"
           THEN [w |-> [w EXCEPT !.cw = "nil"],
                 out |-> BufWriteLines(ChunkedClose(o), <<CRLF>>)]
           ELSE [w |-> w, out |-> o]
  IN [w |-> t.w, out |-> Flush(t.out), commit |-> cm]

\* finishRequest that leaves the chunked sink open.
finishRequestNoClose(w, o, cm) ==
  LET s == IF ~w.wroteHeader THEN WriteHeader(w, o, cm, 200, NoMsg, FALSE)
           ELSE [w |-> w, out |-> o, commit |-> cm]
  IN [w |-> s.w, out |-> Flush(s.out), commit |-> s.commit]

finishRequest(w, o, cm) ==
  CHOOSE r \in
    { IF s.w.cw # "nil"
      THEN [w |-> [s.w EXCEPT !.cw = "nil"],
            out |-> Flush(BufWriteLines(ChunkedClose(s.out), <<CRLF>>)),
            commit |-> s.commit]
      ELSE [w |-> s.w, out |-> Flush(s.out), commit |-> s.commit]
      : s \in {IF ~w.wroteHeader THEN WriteHeader(w, o, cm, 200, NoMsg, FALSE)
                ELSE [w |-> w, out |-> o, commit |-> cm]} } : TRUE

\* ------------------------------------------------------ bridgedRespWriter
\* A bridgedRespWriter is [made, header, wroteHeader]; its irw is the
\* respWriter passed beside it.
NewBridgedResponseWriter == [made |-> TRUE, header |-> EmptyHeader, wroteHeader |-> FALSE]

\* The *http.Response the bridge hands to the ICAP writer.
BridgedResponse(code, header) ==
  [NoMsg EXCEPT !.kind = "resp", !.StatusCode = code, !.Header = header]

\* The bridge's WriteHeader that passes the HTTP status code on as the ICAP
\* status code.
bridgeWriteHeaderPassCode(b, w, o, cm, code) ==
  IF b.wroteHeader THEN [b |-> b, w |-> w, out |-> o, commit |-> cm]
  ELSE LET h1 == IF HeaderGet(b.header, "Content-Type") = ""
                 THEN HeaderSet(b.header, "Content-Type", "text/html; charset=utf-8")
                 ELSE b.header
           h2 == IF "Date" \in DOMAIN h1 THEN h1 ELSE HeaderSet(h1, "Date", NowDate)
           r == WriteHeader(w, o, cm, code, BridgedResponse(code, h2), TRUE)
       IN [b |-> [b EXCEPT !.header = h2, !.wroteHeader = TRUE],
           w |-> r.w, out |-> r.out, commit |-> r.commit]

\* bridgedRespWriter.WriteHeader(code).
bridgeWriteHeader(b, w, o, cm, code) ==
  IF b.wroteHeader THEN [b |-> b, w |-> w, out |-> o, commit |-> cm]
  ELSE CHOOSE x \in
    { LET r == WriteHeader(w, o, cm, 200, BridgedResponse(code, h2), TRUE)
      IN [b |-> [b EXCEPT !.header = h2, !.wroteHeader = TRUE],
          w |-> r.w, out |-> r.out, commit |-> r.commit]
      : h2 \in { LET h1 == IF HeaderGet(b.header, "Content-Type") = ""
                           THEN HeaderSet(b.header, "Content-Type", "text/html; charset=utf-8")
                           ELSE b.header
                 IN IF "Date" \in DOMAIN h1 THEN h1 ELSE HeaderSet(h1, "Date", NowDate) } }
    : TRUE

\* bridgedRespWriter.Write(p).
bridgeWrite(b, w, o, cm, p) ==
  CHOOSE x \in
    { LET r == Write(s.w, s.out, s.commit, p)
      IN [b |-> s.b, w |-> r.w, out |-> r.out, commit |-> r.commit, n |-> r.n, err |-> r.err]
      : s \in {IF ~b.wroteHeader THEN bridgeWriteHeader(b, w, o, cm, 200)
                ELSE [b |-> b, w |-> w, out |-> o, commit |-> cm]} } : TRUE

\* ------------------------------------------------------------------ router
\* The path of an ICAP URL: what stands behind scheme and host, up to the
\* query.
URLPath(raw) ==
  LET sep == Index(raw, "://")
      rest == IF sep = 0 THEN raw ELSE SubSeq(raw, sep + 3, Len(raw))
      slash == Index(rest, "/")
      tail == IF slash = 0 THEN "" ELSE SubSeq(rest, slash, Len(rest))
      q == Index(tail, "?")
  IN IF q = 0 THEN tail ELSE SubSeq(tail, 1, q - 1)

\* Does pattern match path: a pattern that does not end in "/" matches the
\* identical path, one that does matches the paths it is a prefix of.
pathMatch(pattern, path) ==
  IF pattern = "" THEN FALSE
  ELSE IF Char(pattern, Len(pattern)) # "/" THEN pattern = path
  ELSE Len(path) >= Len(pattern) /\ SubSeq(path, 1, Len(pattern)) = pattern

\* A router that takes the shortest matching pattern.
matchShortest(patterns, path) ==
  LET hits == {p \in patterns : pathMatch(p, path)}
  IN IF hits = {} THEN "404"
     ELSE CHOOSE p \in hits : \A q \in hits : Len(q) >= Len(p)

\* The pattern whose handler serves path: the longest that matches, "404"
\* (the not-found handler) when none does.
match(patterns, path) ==
  LET hits == {p \in patterns : pathMatch(p, path)}
  IN IF hits = {} THEN "404"
     ELSE CHOOSE p \in hits : \A q \in hits : Len(q) <= Len(p)

\* ------------------------------------------------------------------ state
VARIABLES
  serveDef,  \* which definition of conn.serve is built: 1 serves one request
             \* and closes, 2 loops until readRequest fails
  srv,       \* Server.Serve: [state, tempErrs, listener, ret]
  pc,        \* per connection, where its serve goroutine stands
  rwc,       \* per connection, the net.Conn: "none", "open" or "closed"
  out,       \* per connection, [buf, wire]: conn.buf's writer and what reached the peer
  w,         \* per connection, the respWriter of the request being served
  commit,    \* per connection, the arguments the current writer was committed with
  served,    \* per connection, how many times the handler was invoked
  calls,     \* per connection, what the running handler has done so far:
             \* [writer |-> WriteHeader and Write calls, header |-> header edits,
             \*  keys |-> the keys it has set in the header map]
  rerr,      \* per connection, the error of the latest readRequest ("" for none)
  last,      \* per connection, the latest call on the writer: its arguments
             \* (code, kind, hasBody for WriteHeader) and what it returned (n, err)
  rx,        \* per connection, the message the latest readRequest found on conn.buf
  hbody,     \* per connection, what the running handler has read from the embedded
             \* body and how much of it it has written back: [read, data, sent]
  brw,       \* per connection, the bridgedRespWriter the running handler made
             \* over its writer: [made, header, wroteHeader]
  mux,       \* DefaultServeMux: the patterns registered
  route      \* per connection, the pattern whose handler the mux gave the request
             \* ("" before the dispatch, "404" for the not-found handler)

vars == <<serveDef, srv, pc, rwc, out, w, commit, served, calls, rerr, last, rx, hbody, brw,
          mux, route>>

Call(op, n, err) == [op |-> op, code |-> 0, kind |-> "none", hasBody |-> FALSE, n |-> n, err |-> err]
NoCall == Call("", 0, FALSE)
NoCalls == [writer |-> 0, header |-> 0, keys |-> {}]
NoBody == [read |-> FALSE, data |-> <<>>, sent |-> 0]
NoBridge == [made |-> FALSE, header |-> EmptyHeader, wroteHeader |-> FALSE]

Init ==
  /\ serveDef \in {1, 2}
  /\ srv = [state |-> "accepting", tempErrs |-> 0, listener |-> "open", ret |-> ""]
  /\ pc = [c \in Conns |-> "idle"]
  /\ rwc = [c \in Conns |-> "none"]
  /\ out = [c \in Conns |-> [buf |-> <<>>, wire |-> <<>>]]
  /\ w = [c \in Conns |-> NewWriter(NoRequest)]
  /\ commit = [c \in Conns |-> NoCommit]
  /\ served = [c \in Conns |-> 0]
  /\ calls = [c \in Conns |-> NoCalls]
  /\ rerr = [c \in Conns |-> ""]
  /\ last = [c \in Conns |-> NoCall]
  /\ rx = [c \in Conns |-> NoMessage]
  /\ hbody = [c \in Conns |-> NoBody]
  /\ brw = [c \in Conns |-> NoBridge]
  /\ mux = {}
  /\ route = [c \in Conns |-> ""]

\* ------------------------------------------------------------ Server.Serve
\* An accept loop that serves the connection itself: c.serve() without go.
AcceptOkSerial(c) ==
  /\ srv.state = "accepting"
  /\ pc[c] = "idle"
  /\ \A d \in Conns : d < c => pc[d] # "idle"
  /\ \A d \in Conns : pc[d] \notin {"read", "handler"}
  /\ pc' = [pc EXCEPT ![c] = "read"]
  /\ rwc' = [rwc EXCEPT ![c] = "open"]
  /\ UNCHANGED <<serveDef, mux, route, rx, hbody, brw, srv, out, w, commit, served, calls, rerr, last>>

\* l.Accept() returns a connection: newConn, then go c.serve().
AcceptOk(c) ==
  /\ srv.state = "accepting"
  /\ pc[c] = "idle"
  /\ \A d \in Conns : d < c => pc[d] # "idle"
  /\ pc' = [pc EXCEPT ![c] = "read"]
  /\ rwc' = [rwc EXCEPT ![c] = "open"]
  /\ UNCHANGED <<serveDef, mux, route, rx, hbody, brw, srv, out, w, commit, served, calls, rerr, last>>

\* An accept loop that returns on a temporary error as well.
AcceptTempErrReturns ==
  /\ srv.state = "accepting"
  /\ srv.tempErrs < MaxTempErr
  /\ srv' = [srv EXCEPT !.tempErrs = @ + 1, !.state = "returned",
                        !.listener = "closed", !.ret = "temporary"]
  /\ UNCHANGED <<serveDef, mux, route, rx, hbody, brw, pc, rwc, out, w, commit, served, calls, rerr, last>>

\* l.Accept() fails with a temporary net.Error: logged, the loop continues.
AcceptTempErr ==
  /\ srv.state = "accepting"
  /\ srv.tempErrs < MaxTempErr
  /\ srv' = [srv EXCEPT !.tempErrs = @ + 1]
  /\ UNCHANGED <<serveDef, mux, route, rx, hbody, brw, pc, rwc, out, w, commit, served, calls, rerr, last>>

\* l.Accept() fails otherwise: Serve returns the error, the deferred l.Close() runs.
AcceptFatal ==
  /\ srv.state = "accepting"
  /\ srv' = [srv EXCEPT !.state = "returned", !.listener = "closed", !.ret = "fatal"]
  /\ UNCHANGED <<serveDef, mux, route, rx, hbody, brw, pc, rwc, out, w, commit, served, calls, rerr, last>>

\* --------------------------------------------------------------- conn.serve
\* c.close(): flush conn.buf, close the net.Conn.
close(o) == Flush(o)

\* readRequest and what serve does with its result.  A failed read panics
\* into the deferred recover (definition 1) or breaks out of the loop into
\* c.close() (definition 2); a request starts the handler on a new writer.
ServeRead(c, m) ==
  /\ pc[c] = "read"
  /\ \E req \in {ReadRequest(m)} :
     /\ IF req.err # ""
        THEN /\ rerr' = [rerr EXCEPT ![c] = req.err]
             /\ rwc' = [rwc EXCEPT ![c] = "closed"]
             /\ IF serveDef = 1
                THEN pc' = [pc EXCEPT ![c] = "recovered"] /\ out' = out
                ELSE pc' = [pc EXCEPT ![c] = "closed"]
                     /\ out' = [out EXCEPT ![c] = close(out[c])]
             /\ UNCHANGED <<w, commit, served, calls, last, hbody, brw, route>>
        ELSE /\ served[c] < MaxReqs
             /\ rerr' = [rerr EXCEPT ![c] = ""]
             /\ w' = [w EXCEPT ![c] = NewWriter(req)]
             /\ commit' = [commit EXCEPT ![c] = NoCommit]
             /\ served' = [served EXCEPT ![c] = @ + 1]
             /\ calls' = [calls EXCEPT ![c] = NoCalls]
             /\ last' = [last EXCEPT ![c] = NoCall]
             /\ hbody' = [hbody EXCEPT ![c] = NoBody]
             /\ brw' = [brw EXCEPT ![c] = NoBridge]
             /\ route' = [route EXCEPT ![c] = ""]
             /\ pc' = [pc EXCEPT ![c] = "handler"]
             /\ UNCHANGED <<rwc, out>>
     /\ rx' = [rx EXCEPT ![c] = m]
     /\ UNCHANGED <<serveDef, srv, mux>>

\* The handler changes the header map: w.Header().Set(key, val).
HandlerSetHeader(c, key, val) ==
  /\ pc[c] = "handler"
  /\ calls[c].writer + calls[c].header < MaxCalls
  /\ w' = [w EXCEPT ![c].header = HeaderSet(@, key, val)]
  /\ calls' = [calls EXCEPT ![c].header = @ + 1, ![c].keys = @ \cup {key}]
  /\ last' = [last EXCEPT ![c] = Call("Header", 0, FALSE)]
  /\ UNCHANGED <<serveDef, mux, route, rx, hbody, brw, srv, pc, rwc, out, commit, served, rerr>>

\* The handler calls w.WriteHeader(code, httpMessage, hasBody).
HandlerWriteHeader(c, code, httpMessage, hasBody) ==
  /\ pc[c] = "handler"
  /\ \E r \in {WriteHeader(w[c], out[c], commit[c], code, httpMessage, hasBody)} :
     /\ calls[c].writer + calls[c].header < MaxCalls
     /\ w' = [w EXCEPT ![c] = r.w]
     /\ out' = [out EXCEPT ![c] = r.out]
     /\ commit' = [commit EXCEPT ![c] = r.commit]
     /\ calls' = [calls EXCEPT ![c].writer = @ + 1]
     /\ last' = [last EXCEPT ![c] = [op |-> "WriteHeader", code |-> code,
                                     kind |-> httpMessage.kind, hasBody |-> hasBody,
                                     n |-> 0, err |-> FALSE]]
     /\ UNCHANGED <<serveDef, mux, route, rx, hbody, brw, srv, pc, rwc, served, rerr>>

\* The handler calls w.Write(p).
HandlerWrite(c, p) ==
  /\ pc[c] = "handler"
  /\ \E r \in {Write(w[c], out[c], commit[c], p)} :
     /\ calls[c].writer + calls[c].header < MaxCalls
     /\ w' = [w EXCEPT ![c] = r.w]
     /\ out' = [out EXCEPT ![c] = r.out]
     /\ commit' = [commit EXCEPT ![c] = r.commit]
     /\ calls' = [calls EXCEPT ![c].writer = @ + 1]
     /\ last' = [last EXCEPT ![c] = Call("Write", r.n, r.err)]
     /\ UNCHANGED <<serveDef, mux, route, rx, hbody, brw, srv, pc, rwc, served, rerr>>

\* A return that completes the bridge as net/http completes its own response
\* writer: a bridge that has written no header writes WriteHeader(200) first.
HandlerReturnBridged(c) ==
  /\ pc[c] = "handler"
  /\ \E b \in {IF brw[c].made /\ ~brw[c].wroteHeader
                THEN bridgeWriteHeader(brw[c], w[c], out[c], commit[c], 200)
                ELSE [b |-> brw[c], w |-> w[c], out |-> out[c], commit |-> commit[c]]} :
     \E r \in {finishRequest(b.w, b.out, b.commit)} :
       /\ brw' = [brw EXCEPT ![c] = b.b]
       /\ w' = [w EXCEPT ![c] = r.w]
       /\ commit' = [commit EXCEPT ![c] = r.commit]
       /\ last' = [last EXCEPT ![c] = Call("finishRequest", 0, FALSE)]
       /\ IF serveDef = 1
          THEN /\ out' = [out EXCEPT ![c] = close(r.out)]
               /\ rwc' = [rwc EXCEPT ![c] = "closed"]
               /\ pc' = [pc EXCEPT ![c] = "closed"]
          ELSE /\ out' = [out EXCEPT ![c] = r.out]
               /\ rwc' = rwc
               /\ pc' = [pc EXCEPT ![c] = "read"]
       /\ UNCHANGED <<serveDef, mux, route, rx, hbody, srv, served, calls, rerr>>

\* ServeICAP returns: w.finishRequest(), then c.close() (definition 1) or the
\* next turn of the loop (definition 2).
HandlerReturn(c) ==
  /\ pc[c] = "handler"
  /\ \E r \in {finishRequest(w[c], out[c], commit[c])} :
     /\ w' = [w EXCEPT ![c] = r.w]
     /\ commit' = [commit EXCEPT ![c] = r.commit]
     /\ last' = [last EXCEPT ![c] = Call("finishRequest", 0, FALSE)]
     /\ IF serveDef = 1
        THEN /\ out' = [out EXCEPT ![c] = close(r.out)]
             /\ rwc' = [rwc EXCEPT ![c] = "closed"]
             /\ pc' = [pc EXCEPT ![c] = "closed"]
        ELSE /\ out' = [out EXCEPT ![c] = r.out]
             /\ rwc' = rwc
             /\ pc' = [pc EXCEPT ![c] = "read"]
     /\ UNCHANGED <<serveDef, mux, route, rx, hbody, brw, srv, served, calls, rerr>>

\* A panic that nothing recovers: the net.Conn stays open.
HandlerPanicUnrecovered(c) ==
  /\ pc[c] = "handler"
  /\ pc' = [pc EXCEPT ![c] = "recovered"]
  /\ last' = [last EXCEPT ![c] = Call("panic", 0, TRUE)]
  /\ UNCHANGED <<serveDef, mux, route, rx, hbody, brw, srv, rwc, out, w, commit, served, calls, rerr>>

\* A recovery that goes through c.close(): conn.buf is flushed before the
\* net.Conn is closed.
HandlerPanicFlushed(c) ==
  /\ pc[c] = "handler"
  /\ out' = [out EXCEPT ![c] = close(out[c])]
  /\ rwc' = [rwc EXCEPT ![c] = "closed"]
  /\ pc' = [pc EXCEPT ![c] = "recovered"]
  /\ last' = [last EXCEPT ![c] = Call("panic", 0, TRUE)]
  /\ UNCHANGED <<serveDef, mux, route, rx, hbody, brw, srv, w, commit, served, calls, rerr>>

\* ServeICAP panics: the deferred function recovers and closes the net.Conn;
\* finishRequest and c.close() do not run, conn.buf is not flushed.
HandlerPanic(c) ==
  /\ pc[c] = "handler"
  /\ rwc' = [rwc EXCEPT ![c] = "closed"]
  /\ pc' = [pc EXCEPT ![c] = "recovered"]
  /\ last' = [last EXCEPT ![c] = Call("panic", 0, TRUE)]
  /\ UNCHANGED <<serveDef, mux, route, rx, hbody, brw, srv, out, w, commit, served, calls, rerr>>

\* The embedded messages of a request, as http.ReadRequest and
\* http.ReadResponse made them from the header sections.
EmbeddedRequest(req) == httpReadRequest(req.rawReqHdr).msg
EmbeddedResponse(req) == httpReadResponse(req.rawRespHdr).msg

\* The handler reads an embedded body to its end: ioutil.ReadAll on
\* req.Request.Body or req.Response.Body.
HandlerReadBody(c, which) ==
  /\ pc[c] = "handler"
  /\ ~hbody[c].read
  /\ \E reader \in {IF which = "Request" THEN w[c].req.Request ELSE w[c].req.Response} :
     /\ reader # "nil"
     /\ hbody' = [hbody EXCEPT ![c] =
                    [read |-> TRUE, sent |-> 0,
                     data |-> IF reader = "chunked" THEN ChunkedRead(w[c].req.b).data
                              ELSE <<>>]]
  /\ last' = [last EXCEPT ![c] = Call("ReadAll", 0, FALSE)]
  /\ UNCHANGED <<serveDef, mux, route, rx, brw, srv, pc, rwc, out, w, commit, served, calls, rerr>>

\* The handler writes the next n bytes of what it read back: w.Write(p).
HandlerEcho(c, n) ==
  /\ pc[c] = "handler"
  /\ hbody[c].read
  /\ hbody[c].sent + n <= Len(hbody[c].data)
  /\ calls[c].writer + calls[c].header < MaxCalls
  /\ \E r \in {Write(w[c], out[c], commit[c],
                     SubSeq(hbody[c].data, hbody[c].sent + 1, hbody[c].sent + n))} :
     /\ w' = [w EXCEPT ![c] = r.w]
     /\ out' = [out EXCEPT ![c] = r.out]
     /\ commit' = [commit EXCEPT ![c] = r.commit]
     /\ calls' = [calls EXCEPT ![c].writer = @ + 1]
     /\ hbody' = [hbody EXCEPT ![c].sent = @ + r.n]
     /\ last' = [last EXCEPT ![c] = Call("Write", r.n, r.err)]
     /\ UNCHANGED <<serveDef, mux, route, rx, brw, srv, pc, rwc, served, rerr>>

\* The handler makes a bridge over its writer: NewBridgedResponseWriter(w).
HandlerBridge(c) ==
  /\ pc[c] = "handler"
  /\ ~brw[c].made
  /\ brw' = [brw EXCEPT ![c] = NewBridgedResponseWriter]
  /\ last' = [last EXCEPT ![c] = Call("NewBridgedResponseWriter", 0, FALSE)]
  /\ UNCHANGED <<serveDef, mux, route, rx, hbody, srv, pc, rwc, out, w, commit, served, calls, rerr>>

\* The HTTP handler changes the bridge's header map: brw.Header().Set(key, val).
BridgeSetHeader(c, key, val) ==
  /\ pc[c] = "handler"
  /\ brw[c].made
  /\ calls[c].writer + calls[c].header < MaxCalls
  /\ brw' = [brw EXCEPT ![c].header = HeaderSet(@, key, val)]
  /\ calls' = [calls EXCEPT ![c].header = @ + 1, ![c].keys = @ \cup {key}]
  /\ last' = [last EXCEPT ![c] = Call("B.Header", 0, FALSE)]
  /\ UNCHANGED <<serveDef, mux, route, rx, hbody, srv, pc, rwc, out, w, commit, served, rerr>>

\* The HTTP handler calls brw.WriteHeader(code).
BridgeWriteHeader(c, code) ==
  /\ pc[c] = "handler"
  /\ brw[c].made
  /\ calls[c].writer + calls[c].header < MaxCalls
  /\ \E r \in {bridgeWriteHeader(brw[c], w[c], out[c], commit[c], code)} :
     /\ brw' = [brw EXCEPT ![c] = r.b]
     /\ w' = [w EXCEPT ![c] = r.w]
     /\ out' = [out EXCEPT ![c] = r.out]
     /\ commit' = [commit EXCEPT ![c] = r.commit]
     /\ calls' = [calls EXCEPT ![c].writer = @ + 1]
     /\ last' = [last EXCEPT ![c] = [Call("B.WriteHeader", 0, FALSE) EXCEPT !.code = code]]
     /\ UNCHANGED <<serveDef, mux, route, rx, hbody, srv, pc, rwc, served, rerr>>

\* The HTTP handler calls brw.Write(p).
BridgeWrite(c, p) ==
  /\ pc[c] = "handler"
  /\ brw[c].made
  /\ calls[c].writer + calls[c].header < MaxCalls
  /\ \E r \in {bridgeWrite(brw[c], w[c], out[c], commit[c], p)} :
     /\ brw' = [brw EXCEPT ![c] = r.b]
     /\ w' = [w EXCEPT ![c] = r.w]
     /\ out' = [out EXCEPT ![c] = r.out]
     /\ commit' = [commit EXCEPT ![c] = r.commit]
     /\ calls' = [calls EXCEPT ![c].writer = @ + 1]
     /\ last' = [last EXCEPT ![c] = Call("B.Write", r.n, r.err)]
     /\ UNCHANGED <<serveDef, mux, route, rx, hbody, srv, pc, rwc, served, rerr>>

\* Handle(pattern, handler) before the server serves: a pattern is registered
\* once.
Handle(pattern) ==
  /\ srv.state = "accepting"
  /\ \A c \in Conns : pc[c] = "idle"
  /\ pattern \notin mux
  /\ mux' = mux \cup {pattern}
  /\ UNCHANGED <<serveDef, route, rx, hbody, brw, srv, pc, rwc, out, w, commit, served,
                 calls, rerr, last>>

\* DefaultServeMux.ServeICAP: the request goes to the handler of the pattern
\* that matches its path; the not-found handler commits 404 without a body,
\* a registered handler is left to return.
MuxServeICAP(c) ==
  /\ pc[c] = "handler"
  /\ route[c] = ""
  /\ \E h \in {match(mux, URLPath(w[c].req.RawURL))} :
     /\ route' = [route EXCEPT ![c] = h]
     /\ \E r \in {IF h = "404" THEN WriteHeader(w[c], out[c], commit[c], 404, NoMsg, FALSE)
                   ELSE [w |-> w[c], out |-> out[c], commit |-> commit[c]]} :
        /\ w' = [w EXCEPT ![c] = r.w]
        /\ out' = [out EXCEPT ![c] = r.out]
        /\ commit' = [commit EXCEPT ![c] = r.commit]
  /\ last' = [last EXCEPT ![c] = Call("ServeICAP", 0, FALSE)]
  /\ UNCHANGED <<serveDef, mux, rx, hbody, brw, srv, pc, rwc, served, calls, rerr>>

\* ----------------------------------------------------------------- inputs
URL == "icap://icap-server.net/server?arg=87"

Good ==
  { Message("REQMOD " \o URL \o " ICAP/1.0", "req-hdr=0, null-body=3", 3),
    Message("RESPMOD " \o URL \o " ICAP/1.0", "req-hdr=0, res-hdr=2, res-body=5", 5),
    Message("OPTIONS " \o URL \o " ICAP/1.0", "null-body=0", 0),
    Message("QUERY " \o URL \o " ICAP/1.0", "null-body=0", 0),
    Message("OK " \o URL \o " ICAP/1.0", "null-body=0", 0) }

EndOfStream == [Message("", "", 0) EXCEPT !.eof = TRUE]

Bad ==
  { EndOfStream,
    Message("REQMOD " \o URL, "null-body=0", 0),
    [Message("REQMOD %zz ICAP/1.0", "null-body=0", 0) EXCEPT !.urlOk = FALSE],
    [Message("REQMOD " \o URL \o " ICAP/1.0", "null-body=0", 0) EXCEPT !.hdrOk = FALSE],
    Message("REQMOD " \o URL \o " ICAP/1.0", "", 0),
    Message("REQMOD " \o URL \o " ICAP/1.0", "req-hdr", 0),
    Message("REQMOD " \o URL \o " ICAP/1.0", "req-hdr=0, null-body=x", 0),
    Message("REQMOD " \o URL \o " ICAP/1.0", "req-hdr=0, foo-body=3", 3),
    Message("REQMOD " \o URL \o " ICAP/1.0", "null-body=0, req-hdr=0", 3),
    Message("REQMOD " \o URL \o " ICAP/1.0", "req-hdr=0, null-body=3", 1),
    [Message("REQMOD " \o URL \o " ICAP/1.0", "req-hdr=0, null-body=3", 3)
       EXCEPT !.reqParses = FALSE] }

\* A message whose encapsulation region and body the model follows.
MessageWith(line, encap, lines, body) ==
  [Message(line, encap, Len(lines)) EXCEPT
     !.region = [i \in 1..Len(lines) |-> HttpLine(lines[i])], !.body = body]

\* http's chunked encoding of a body cut into chunks.
RECURSIVE EncodeChunks(_)
EncodeChunks(chunks) ==
  IF chunks = <<>> THEN <<ChunkSize(0), CRLF>>
  ELSE (IF Head(chunks) = <<>> THEN <<>>
        ELSE <<ChunkSize(Len(Head(chunks)))>>
               \o [i \in 1..Len(Head(chunks)) |-> DataByte(Head(chunks)[i])] \o <<CRLF>>)
       \o EncodeChunks(Tail(chunks))

\* RESPMOD messages with a request header and a response header of three
\* lines each whose text the model follows, the manifest naming them in the
\* order they stand in or in the other order.
ReqLines == <<"GET /origin-resource HTTP/1.1", "Host: www.origin-server.com", "">>
RespLines == <<"HTTP/1.1 200 OK", "Server: Apache", "">>
Sections ==
  {MessageWith("RESPMOD " \o URL \o " ICAP/1.0", encap, lines, EncodeChunks(<<<<"a">>>>)) :
     encap \in {"req-hdr=0, res-hdr=3, res-body=6", "res-hdr=0, req-hdr=3, res-body=6"},
     lines \in {ReqLines \o RespLines, RespLines \o ReqLines}}

\* Manifests of up to MaxItems items, each a key of the protocol or a key
\* outside it, with an offset up to MaxOffset, joined as the peer writes them.
ManifestKeys == {"req-hdr", "res-hdr", "req-body", "res-body", "opt-body", "null-body",
                 "xyz-body"}
ManifestItems == {k \o "=" \o ToString(o) : k \in ManifestKeys, o \in 0..MaxOffset}

RECURSIVE Join(_, _)
Join(items, sep) ==
  IF Len(items) = 1 THEN items[1]
  ELSE items[1] \o sep \o Join(Tail(items), sep)

Manifests ==
  UNION {{Join(s, ", ") : s \in [1..n -> ManifestItems]} : n \in 1..MaxItems}

\* Every manifest under each method, with as much of the encapsulation region
\* on the stream as any of them can name.
\* Messages without an Encapsulated header, under each method.
NoManifest ==
  {Message(method \o " " \o URL \o " ICAP/1.0", "", 0) :
     method \in {"REQMOD", "RESPMOD", "OPTIONS"}}

ParserMessages ==
  {Message(method \o " " \o URL \o " ICAP/1.0", encap, MaxItems * MaxOffset) :
     method \in {"REQMOD", "RESPMOD", "OPTIONS"}, encap \in Manifests}
    \cup Good \cup Bad \cup Sections \cup NoManifest

Codes == {200, 999}
Messages == {NoMsg, ReqMsg, BadReqMsg, RespMsg}
HeaderEdits ==
  { <<"Date", "Mon, 10 Jan 2000 09:55:21 GMT">>, <<"Istag", "W3E4R7U9">>,
    <<"Encapsulated", "req-hdr=0, req-body=99">>, <<"Connection", "keep-alive">> }
Payloads == {<<>>, <<"x">>}

\* Bodies of up to MaxBody bytes, sent as one chunk or cut in two.
BodyBytes == <<"a", "b", "c", "d">>
BodyInputs == {SubSeq(BodyBytes, 1, n) : n \in 0..MaxBody}
Encodings(x) ==
  {EncodeChunks(<<SubSeq(x, 1, k), SubSeq(x, k + 1, Len(x))>>) : k \in 0..Len(x)}

\* Embedded request headers: as httpRequestHeader writes them; with a
\* Content-Length line; with an absolute URL and no Host line; with a key in
\* lower case and the lines out of order.
ReqHeaders ==
  { <<"POST /origin-resource/form.pl HTTP/1.1", "Accept: text/html",
      "Host: www.origin-server.com", "">>,
    <<"POST /origin-resource/form.pl HTTP/1.1", "Accept: text/html",
      "Content-Length: 2", "Host: www.origin-server.com", "">>,
    <<"GET http://www.origin-server.com/ HTTP/1.1", "">>,
    <<"GET / HTTP/1.1", "Host: www.origin-server.com", "accept: text/html", "">> }

\* Embedded response headers, without and with a Content-Length line.
RespHeaders ==
  { <<"HTTP/1.1 200 OK", "Server: Apache", "">>,
    <<"HTTP/1.1 200 OK", "Content-Length: 2", "Server: Apache", "">> }

\* REQMOD with and without a body, RESPMOD with a body.
RoundTripMessages ==
  {MessageWith("REQMOD " \o URL \o " ICAP/1.0",
               "req-hdr=0, req-body=" \o ToString(Len(h)), h, body) :
     h \in ReqHeaders, body \in UNION {Encodings(x) : x \in BodyInputs}}
  \cup
  {MessageWith("REQMOD " \o URL \o " ICAP/1.0",
               "req-hdr=0, null-body=" \o ToString(Len(h)), h, <<>>) : h \in ReqHeaders}
  \cup
  {MessageWith("RESPMOD " \o URL \o " ICAP/1.0",
               "req-hdr=0, res-hdr=" \o ToString(Len(h)) \o ", res-body="
                 \o ToString(Len(h) + Len(r)), h \o r, body) :
     h \in {<<"GET / HTTP/1.1", "Host: www.origin-server.com", "">>},
     r \in RespHeaders, body \in UNION {Encodings(x) : x \in BodyInputs}}

\* ---------------------------------------------------------- specifications
\* One connection whose peer sends one message and then ends the stream; the
\* handler makes any MaxCalls calls on its writer, then returns or panics.
Next ==
  \/ AcceptOk(1)
  \/ \E m \in (IF served[1] = 0 THEN Good \cup Bad ELSE {EndOfStream}) : ServeRead(1, m)
  \/ \E e \in HeaderEdits : HandlerSetHeader(1, e[1], e[2])
  \/ \E code \in Codes, msg \in Messages, hasBody \in BOOLEAN :
       HandlerWriteHeader(1, code, msg, hasBody)
  \/ \E p \in Payloads : HandlerWrite(1, p)
  \/ HandlerReturn(1)
  \/ HandlerPanic(1)

Spec == Init /\ [][Next]_vars

\* The reader: one connection whose peer sends any message of ParserMessages;
\* the handler only returns or panics.
ParserNext ==
  \/ AcceptOk(1)
  \/ /\ pc[1] = "read"
     /\ \E m \in (IF served[1] = 0 THEN ParserMessages ELSE {EndOfStream}) : ServeRead(1, m)
  \/ HandlerReturn(1)
  \/ HandlerPanic(1)

ParserSpec == Init /\ [][ParserNext]_vars

\* The round trip: one connection whose peer sends a message of
\* RoundTripMessages; the handler reads an embedded body, commits with an
\* embedded message of the request and writes what it read back, in any order
\* and as far as it likes, then returns.
RoundTripNext ==
  \/ AcceptOk(1)
  \/ /\ pc[1] = "read"
     /\ \E m \in (IF served[1] = 0 THEN RoundTripMessages \cup {EndOfStream}
                  ELSE {EndOfStream}) : ServeRead(1, m)
  \/ \E which \in {"Request", "Response"} : HandlerReadBody(1, which)
  \/ /\ pc[1] = "handler"
     /\ w[1].req.Request # "nil"
     /\ \E hasBody \in BOOLEAN : HandlerWriteHeader(1, 200, EmbeddedRequest(w[1].req), hasBody)
  \/ /\ pc[1] = "handler"
     /\ w[1].req.Response # "nil"
     /\ \E hasBody \in BOOLEAN : HandlerWriteHeader(1, 200, EmbeddedResponse(w[1].req), hasBody)
  \/ \E n \in 0..MaxBody : HandlerEcho(1, n)
  \/ HandlerReturn(1)

RoundTripSpec == Init /\ [][RoundTripNext]_vars

\* The bridge: one connection whose handler answers through a
\* bridgedRespWriter over its writer (ServeLocally), with any MaxCalls calls.
HTTPCodes == {200, 404, 999}
BridgeEdits ==
  { <<"Content-Type", "text/plain">>, <<"Date", "Mon, 10 Jan 2000 09:55:21 GMT">>,
    <<"Server", "Apache">> }

BridgeNext ==
  \/ AcceptOk(1)
  \/ /\ pc[1] = "read"
     /\ \E m \in (IF served[1] = 0 THEN Good \cup {EndOfStream} ELSE {EndOfStream}) :
          ServeRead(1, m)
  \/ HandlerBridge(1)
  \/ \E e \in BridgeEdits : BridgeSetHeader(1, e[1], e[2])
  \/ \E code \in HTTPCodes : BridgeWriteHeader(1, code)
  \/ \E p \in Payloads : BridgeWrite(1, p)
  \/ HandlerReturn(1)

BridgeSpec == Init /\ [][BridgeNext]_vars

\* The router: patterns are registered, then one connection is served by
\* DefaultServeMux (Server.Handler is nil).
Patterns == {"/", "/golang", "/golang/", "/golang/x/"}
Paths == {"/", "/golang", "/golang/", "/golang/x", "/golang/x/y", "/other", ""}
MuxMessages ==
  {Message("REQMOD icap://icap-server.net" \o path \o "?arg=87 ICAP/1.0", "null-body=0", 0) :
     path \in Paths}

MuxNext ==
  \/ \E pattern \in Patterns : Handle(pattern)
  \/ AcceptOk(1)
  \/ /\ pc[1] = "read"
     /\ \E m \in (IF served[1] = 0 THEN MuxMessages \cup {EndOfStream} ELSE {EndOfStream}) :
          ServeRead(1, m)
  \/ MuxServeICAP(1)
  \/ route[1] # "" /\ HandlerReturn(1)

MuxSpec == Init /\ [][MuxNext]_vars

\* The server: the accept loop hands out NConn connections, each served by
\* its own goroutine; a peer sends up to MaxReqs messages and then ends the
\* stream or sends a message ReadRequest rejects.  The handler returns or
\* panics without touching its writer.
ServerMessages ==
  { Message("OPTIONS " \o URL \o " ICAP/1.0", "null-body=0", 0),
    EndOfStream,
    Message("REQMOD " \o URL \o " ICAP/1.0", "", 0) }

Worker(c) ==
  \/ \E m \in ServerMessages : ServeRead(c, m)
  \/ HandlerReturn(c)
  \/ HandlerPanic(c)

ServerNext ==
  \/ \E c \in Conns : AcceptOk(c)
  \/ AcceptTempErr
  \/ AcceptFatal
  \/ \E c \in Conns : Worker(c)

ServerSpec == Init /\ [][ServerNext]_vars

\* Every goroutine that can take a step eventually takes one: a read returns
\* (the peer sends a message or ends the stream) and the handler terminates.
FairServerSpec == ServerSpec /\ \A c \in Conns : WF_vars(Worker(c))

\* ------------------------------------------------------------ properties
\* What the server has written on connection c, in order: what reached the
\* peer, then what conn.buf still holds.
StreamOf(o) == o.wire \o o.buf
Stream(c) == StreamOf(out[c])

Count(s, kind) == Cardinality({i \in DOMAIN s : s[i].k = kind})

HasPrefix(s, pre) == Len(s) >= Len(pre) /\ SubSeq(s, 1, Len(pre)) = pre
HasSuffix(s, suf) == Len(s) >= Len(suf) /\ SubSeq(s, Len(s) - Len(suf) + 1, Len(s)) = suf

\* Where the lines of the Encapsulated header stand in s.
EncapLines(s) == {i \in DOMAIN s : s[i].k = "hdr" /\ HasPrefix(s[i].s, "Encapsulated: ")}

\* The first blank line of s (0 when there is none).
FirstBlank(s) ==
  IF \E i \in DOMAIN s : s[i].k = "crlf"
  THEN CHOOSE i \in DOMAIN s : s[i].k = "crlf" /\ \A j \in 1..(i - 1) : s[j].k # "crlf"
  ELSE 0

\* The step is a call of op on c's writer by the handler.
IsCall(c, op) == calls'[c].writer = calls[c].writer + 1 /\ last'[c].op = op

\* Every body token of s stands behind a whole response header: the status
\* line, the ICAP header lines, a blank line and the HTTP header lines.
HeaderBeforeBody(s) ==
  \A i \in DOMAIN s :
    s[i].k \in {"size", "data"} =>
      /\ s[1].k = "status"
      /\ FirstBlank(s) > 1
      /\ EncapLines(s) # {}
      /\ \A j \in 2..(FirstBlank(s) - 1) : s[j].k = "hdr"
      /\ \A j \in (FirstBlank(s) + 1)..(FirstBlank(s) + Count(s, "http")) : s[j].k = "http"
      /\ i > FirstBlank(s) + Count(s, "http")

\* C1: the status line and the ICAP header are emitted at most once on a
\* writer, and a WriteHeader call on a committed writer writes nothing,
\* changes neither wroteHeader, the header map nor the chunk sink, and does
\* not end the handler.
C1_CommitOnce ==
  /\ [](\A c \in Conns : Count(Stream(c), "status") <= 1
                         /\ Cardinality(EncapLines(Stream(c))) <= 1)
  /\ [][\A c \in Conns :
          (w[c].wroteHeader /\ IsCall(c, "WriteHeader")) =>
            (out'[c] = out[c] /\ w'[c] = w[c] /\ commit'[c] = commit[c]
             /\ pc'[c] = "handler" /\ rwc'[c] = "open")]_vars

\* A later WriteHeader call, with other arguments than the commit's, has returned.
C1_Witness ==
  \E c \in Conns :
    /\ last[c].op = "WriteHeader"
    /\ calls[c].writer >= 2
    /\ commit[c].done
    /\ last[c].code # commit[c].code
    /\ last[c].hasBody # commit[c].hasBody
    /\ Count(Stream(c), "status") = 1

\* C2: no body byte is written before the whole response header, and a Write
\* on an uncommitted writer commits with (200, no message, hasBody) and then
\* writes its data through the chunked sink.
C2_HeaderBeforeBody ==
  /\ [](\A c \in Conns : HeaderBeforeBody(Stream(c)))
  /\ [][\A c \in Conns :
          (~w[c].wroteHeader /\ IsCall(c, "Write")) =>
            /\ commit'[c] = [done |-> TRUE, code |-> 200, kind |-> "none",
                             hasBody |-> TRUE, hdrLen |-> 0]
            /\ w'[c].wroteHeader /\ w'[c].cw = "open"
            /\ ~last'[c].err
            /\ StreamOf(out'[c])[1] = StatusLine(200, "OK")
            /\ Count(StreamOf(out'[c]), "http") = 0
            /\ Count(StreamOf(out'[c]), "data") = last'[c].n]_vars

\* The handler's first call was a Write of one byte.
C2_Witness ==
  \E c \in Conns :
    /\ last[c].op = "Write"
    /\ calls[c].writer = 1
    /\ last[c].n = 1
    /\ Count(Stream(c), "data") = 1

\* C3: a Write on a writer committed with hasBody = false returns (0, error),
\* writes nothing and leaves the writer as it was, however often it is called.
C3_WriteWithoutBody ==
  [][\A c \in Conns :
       (commit[c].done /\ ~commit[c].hasBody /\ IsCall(c, "Write")) =>
         /\ last'[c].n = 0 /\ last'[c].err
         /\ out'[c] = out[c]
         /\ w'[c] = w[c]
         /\ commit'[c] = commit[c]]_vars

\* A Write has failed as the third call on a writer committed without a body.
C3_Witness ==
  \E c \in Conns :
    /\ last[c].op = "Write" /\ last[c].err /\ last[c].n = 0
    /\ calls[c].writer = 3
    /\ commit[c].done /\ ~commit[c].hasBody
    /\ Count(Stream(c), "data") = 0

\* The value of the Encapsulated header line of s.
EncapValue(s) ==
  LET i == CHOOSE i \in EncapLines(s) : TRUE
  IN SubSeq(s[i].s, Len("Encapsulated: ") + 1, Len(s[i].s))

\* The entries of a manifest, as the peer reads them: key and offset.
Entries(v) ==
  LET items == Split(v, ", ")
  IN [i \in DOMAIN items |->
        LET eq == Index(items[i], "=")
        IN [key |-> SubSeq(items[i], 1, eq - 1),
            off |-> Atoi(SubSeq(items[i], eq + 1, Len(items[i]))).val]]

ManifestOf(c) == Entries(EncapValue(Stream(c)))

\* C4: for every committed response the manifest describes the emitted bytes:
\* the last offset is the number of embedded HTTP header bytes, a req-hdr=0 or
\* res-hdr=0 entry is there exactly when such bytes are, and the last key is
\* req-body, res-body or opt-body if hasBody and null-body otherwise.
C4_ManifestDescribesBytes ==
  \A c \in Conns :
    commit[c].done =>
      LET e == ManifestOf(c)
          nhttp == Count(Stream(c), "http")
      IN /\ e[Len(e)].off = nhttp
         /\ (\E i \in DOMAIN e : e[i].key \in {"req-hdr", "res-hdr"} /\ e[i].off = 0)
              <=> nhttp > 0
         /\ IF commit[c].hasBody
            THEN e[Len(e)].key \in {"req-body", "res-body", "opt-body"}
            ELSE e[Len(e)].key = "null-body"

\* C5: on one connection the handler is invoked at most once, and once
\* finishRequest has run the connection is closed.
C5_OneRequestPerConnection ==
  \A c \in Conns :
    /\ served[c] <= 1
    /\ (last[c].op = "finishRequest" => rwc[c] = "closed" /\ pc[c] = "closed")

\* C6: when the handler returns without a WriteHeader or Write call, what
\* finishRequest flushed is one ICAP/1.0 200 OK status line, header lines with
\* Encapsulated: null-body=0, one blank line, and nothing else.
C6_DefaultResponse ==
  \A c \in Conns :
    (last[c].op = "finishRequest" /\ calls[c].writer = 0) =>
      LET s == out[c].wire
      IN /\ commit[c] = [done |-> TRUE, code |-> 200, kind |-> "none",
                         hasBody |-> FALSE, hdrLen |-> 0]
         /\ out[c].buf = <<>>
         /\ Len(s) >= 3
         /\ s[1] = StatusLine(200, "OK")
         /\ \A i \in 2..(Len(s) - 1) : s[i].k = "hdr"
         /\ s[Len(s)] = CRLF
         /\ Cardinality(EncapLines(s)) = 1
         /\ EncapValue(s) = "null-body=0"
         /\ \E i \in DOMAIN s : s[i] = HdrLine("Connection", "close")

\* The handler changed a header, made no writer call and returned.
C6_Witness ==
  \E c \in Conns :
    /\ last[c].op = "finishRequest"
    /\ calls[c].writer = 0
    /\ calls[c].header > 0
    /\ Len(out[c].wire) > 0

\* C7: after finishRequest nothing is left in the buffer; a response committed
\* with hasBody ends with the one zero-length chunk of the stream and a blank
\* line, and a response committed without hasBody has no chunk at all.
C7_ChunkTerminator ==
  \A c \in Conns :
    last[c].op = "finishRequest" =>
      /\ out[c].buf = <<>>
      /\ w[c].cw = "nil"
      /\ IF commit[c].hasBody
         THEN /\ HasSuffix(out[c].wire, <<ChunkSize(0), CRLF>>)
              /\ Cardinality({i \in DOMAIN out[c].wire : out[c].wire[i] = ChunkSize(0)}) = 1
         ELSE Count(out[c].wire, "size") = 0

\* A handler wrote a byte into a response with a body and returned.
C7_Witness ==
  \E c \in Conns :
    /\ last[c].op = "finishRequest"
    /\ commit[c].hasBody
    /\ Count(out[c].wire, "data") > 0
    /\ rwc[c] = "closed"

\* A handler committed without a body and returned.
C7_WitnessNoBody ==
  \E c \in Conns :
    last[c].op = "finishRequest" /\ calls[c].writer > 0 /\ ~commit[c].hasBody

\* C8: committed with no HTTP message and hasBody, the manifest is req-body=0,
\* res-body=0 or opt-body=0 whatever the method of the request, and every key
\* of every emitted manifest is one of the six keys of the protocol.
C8_BodyKeyOfMethod ==
  \A c \in Conns :
    commit[c].done =>
      /\ (commit[c].kind = "none" /\ commit[c].hasBody =>
            EncapValue(Stream(c)) \in {"req-body=0", "res-body=0", "opt-body=0"})
      /\ \A i \in DOMAIN ManifestOf(c) : ManifestOf(c)[i].key \in BodyKeys \cup {"req-hdr", "res-hdr"}

\* C9: when ReadRequest has failed on a connection, the handler was never
\* invoked on it, no byte was written to it, and it is closed.
C9_NoHandlerAfterReadError ==
  \A c \in Conns :
    rerr[c] \notin {"", "unexpected EOF"} =>
      /\ served[c] = 0
      /\ Stream(c) = <<>>
      /\ rwc[c] = "closed"

C11_AcceptLoop ==
  /\ [](/\ srv.state \in {"accepting", "returned"}
        /\ (srv.state = "returned" <=> srv.listener = "closed")
        /\ (srv.state = "returned" <=> srv.ret = "fatal"))
  /\ [][srv' # srv =>
          /\ srv.state = "accepting"
          /\ \/ srv' = [srv EXCEPT !.tempErrs = @ + 1]
             \/ srv' = [srv EXCEPT !.state = "returned", !.listener = "closed",
                                   !.ret = "fatal"]]_vars

\* Serve has returned after temporary errors and after serving a connection.
C11_Witness ==
  /\ srv.state = "returned" /\ srv.ret = "fatal" /\ srv.listener = "closed"
  /\ srv.tempErrs = MaxTempErr
  /\ \E c \in Conns : served[c] > 0

\* C12: every accepted connection has its own worker, which the accept loop
\* does not wait for: while the loop runs it can accept the next connection
\* whatever the other workers do, a worker can always take its next step, and
\* accepting a connection touches no other connection.
C12_ConcurrentWorkers ==
  /\ [](\A c \in Conns :
          /\ (srv.state = "accepting" /\ pc[c] = "idle" /\ \A d \in Conns : d < c => pc[d] # "idle")
               => ENABLED AcceptOk(c)
          /\ pc[c] \in {"read", "handler"} => ENABLED Worker(c))
  /\ [][\A c \in Conns :
          (pc[c] = "idle" /\ pc'[c] # "idle") =>
            /\ pc'[c] = "read" /\ rwc'[c] = "open"
            /\ \A d \in Conns \ {c} : pc'[d] = pc[d] /\ rwc'[d] = rwc[d] /\ out'[d] = out[d]]_vars

\* The first connection's handler has not returned; a connection accepted
\* later has been served and closed.
C12_Witness ==
  \E c, d \in Conns :
    /\ c < d
    /\ pc[c] = "handler"
    /\ pc[d] = "closed" /\ rwc[d] = "closed"
    /\ last[d].op = "finishRequest" /\ Len(out[d].wire) > 0

\* The latest readRequest on c returned a request: rx[c] is its message and
\* w[c].req what ReadRequest made of it.
Accepted(c) == served[c] > 0 /\ rerr[c] = ""

\* The latest readRequest on c returned an error for the message rx[c].
Rejected(c) == rerr[c] # "" /\ ~rx[c].eof

\* The message of c carries a manifest.
HasManifest(c) == rx[c] # NoMessage /\ ~rx[c].eof /\ rx[c].encap # ""

\* Where the body markers stand in a manifest's entries.
Markers(e) == {i \in DOMAIN e : e[i].key \in BodyKeys}

\* C13: a request ReadRequest accepts has at most one body marker in its
\* manifest, as the last entry; a manifest with an entry behind a body marker
\* is rejected with an error and no request.
C13_BodyMarkerLast ==
  \A c \in Conns :
    HasManifest(c) =>
      LET e == Entries(rx[c].encap)
      IN /\ Accepted(c) => Cardinality(Markers(e)) <= 1 /\ Markers(e) \subseteq {Len(e)}
         /\ (\E i \in Markers(e) : i < Len(e)) =>
              /\ Rejected(c)
              /\ served[c] = 0 /\ w[c].req = NoRequest
              /\ pc[c] \in {"recovered", "closed"}

\* A manifest of well-formed items was rejected for the entry behind its body marker.
C13_Witness ==
  \E c \in Conns :
    /\ HasManifest(c)
    /\ rerr[c] = "req-body must be the last section"
    /\ Len(Entries(rx[c].encap)) = MaxItems
    /\ Entries(rx[c].encap)[MaxItems - 1].key = "req-body"

\* C14: in a request ReadRequest accepts, the offsets of the manifest start
\* at 0 and never decrease from left to right.
C14_OffsetsNonDecreasing ==
  \A c \in Conns :
    (HasManifest(c) /\ Accepted(c)) =>
      LET e == Entries(rx[c].encap)
      IN /\ e[1].off = 0
         /\ \A i \in 1..(Len(e) - 1) : e[i].off <= e[i + 1].off

\* The keys of connection c's manifest.
Keys(c) == {Entries(rx[c].encap)[i].key : i \in 1..Len(Entries(rx[c].encap))}

\* The body readers of the embedded messages of the request c's handler got.
Bodies(c) == <<w[c].req.Request, w[c].req.Response>>

\* C15: when the manifest of an accepted request names req-body, res-body or
\* opt-body, exactly one of the two embedded bodies is a chunked reader on the
\* connection, and the other message, where there is one, has an empty reader.
C15_ExactlyOneBodyReader ==
  \A c \in Conns :
    (HasManifest(c) /\ Accepted(c) /\ Keys(c) \cap {"req-body", "res-body", "opt-body"} # {}) =>
      \E i \in 1..2 : Bodies(c)[i] = "chunked" /\ Bodies(c)[3 - i] \in {"empty", "nil"}

\* C16: a request ReadRequest returns has an embedded HTTP request exactly
\* when its manifest names req-hdr or req-body, and an embedded HTTP response
\* exactly when its manifest names res-hdr or res-body.
C16_EmbeddedPresence ==
  \A c \in Conns :
    (HasManifest(c) /\ Accepted(c)) =>
      /\ w[c].req.Request # "nil" <=> Keys(c) \cap {"req-hdr", "req-body"} # {}
      /\ w[c].req.Response # "nil" <=> Keys(c) \cap {"res-hdr", "res-body"} # {}

\* What follows the ICAP header on c's stream.
Encapsulation(c) == SubSeq(Stream(c), FirstBlank(Stream(c)) + 1, Len(Stream(c)))

\* The handler of a REQMOD request with a chunked body has read the body to
\* its end, committed with (200, the embedded request, TRUE) before its first
\* Write, written all it read back, and returned.
EchoDone(c) ==
  /\ last[c].op = "finishRequest"
  /\ w[c].req.Method = "REQMOD" /\ w[c].req.Request = "chunked"
  /\ hbody[c].read /\ hbody[c].sent = Len(hbody[c].data)
  /\ commit[c].done /\ commit[c].code = 200 /\ commit[c].kind = "req" /\ commit[c].hasBody

\* C17: after such a handler the body X it read is what the peer's chunks
\* carry, the manifest ends with req-body at the length of the embedded request
\* header, that header stands first in the encapsulation, and the chunks after
\* it decode to X.
C17_RoundTripBody ==
  \A c \in Conns :
    EchoDone(c) =>
      LET e == ManifestOf(c)
          n == e[Len(e)].off
          enc == Encapsulation(c)
      IN /\ ChunkedRead(w[c].req.b) = [data |-> hbody[c].data, ok |-> TRUE]
         /\ e[Len(e)].key = "req-body"
         /\ n <= Len(enc)
         /\ SubSeq(enc, 1, n) = httpRequestHeader(EmbeddedRequest(w[c].req)).hdr
         /\ ChunkedRead(SubSeq(enc, n + 1, Len(enc))) = [data |-> hbody[c].data, ok |-> TRUE]

\* A body of MaxBody bytes went back in two Write calls.
C17_Witness ==
  \E c \in Conns :
    EchoDone(c) /\ Len(hbody[c].data) = MaxBody /\ calls[c].writer = 3 /\ last[c].op = "finishRequest"

\* The bytes of a run of lines: each line's text and its CRLF.
RECURSIVE ByteLen(_)
ByteLen(lines) ==
  IF lines = <<>> THEN 0 ELSE Len(Head(lines).s) + 2 + ByteLen(Tail(lines))

\* C18: for an accepted request, the embedded HTTP header written again by
\* httpRequestHeader / httpResponseHeader from the parsed message has as many
\* bytes as the section the manifest's offsets delimit.
C18_ReserializedLength ==
  \A c \in Conns :
    (HasManifest(c) /\ Accepted(c)) =>
      /\ w[c].req.Request # "nil" =>
           /\ Len(w[c].req.rawReqHdr) = w[c].req.reqHdrLen
           /\ ByteLen(httpRequestHeader(EmbeddedRequest(w[c].req)).hdr)
                = ByteLen(w[c].req.rawReqHdr)
      /\ w[c].req.Response # "nil" =>
           /\ Len(w[c].req.rawRespHdr) = w[c].req.respHdrLen
           /\ ByteLen(httpResponseHeader(EmbeddedResponse(w[c].req)).hdr)
                = ByteLen(w[c].req.rawRespHdr)

\* The values the ICAP header of s gives key, in order.
IcapValues(s, key) ==
  LET at == {i \in DOMAIN s : s[i].k = "hdr" /\ HasPrefix(s[i].s, key \o ": ")}
  IN {SubSeq(s[i].s, Len(key) + 3, Len(s[i].s)) : i \in at}

IcapLineCount(s, key) ==
  Cardinality({i \in DOMAIN s : s[i].k = "hdr" /\ HasPrefix(s[i].s, key \o ": ")})

\* C19: on the step that commits a writer, whatever the header map held for
\* Encapsulated and Connection, the response carries one Encapsulated line,
\* the manifest computed for the embedded header written, and one Connection
\* line, close; it carries the handler's Date value if the map held one and
\* the clock's reading otherwise.
C19_HeaderOverwrite ==
  [][\A c \in Conns :
       (~w[c].wroteHeader /\ w'[c].wroteHeader) =>
         LET s == StreamOf(out'[c])
             e == Entries(EncapValue(s))
         IN /\ IcapLineCount(s, "Encapsulated") = 1
            /\ e[Len(e)].off = commit'[c].hdrLen
            /\ HasSuffix(e[Len(e)].key, "-body")
            /\ EncapValue(s) = HeaderGet(w'[c].header, "Encapsulated")
            /\ ("Encapsulated" \in DOMAIN w[c].header =>
                  EncapValue(s) # HeaderGet(w[c].header, "Encapsulated"))
            /\ IcapLineCount(s, "Connection") = 1
            /\ IcapValues(s, "Connection") = {"close"}
            /\ IcapLineCount(s, "Date") = 1
            /\ IcapValues(s, "Date") = IF "Date" \in DOMAIN w[c].header
                                       THEN {HeaderGet(w[c].header, "Date")}
                                       ELSE {NowDate}]_vars

\* A handler set Encapsulated, Connection and Date and returned without a
\* call on its writer: finishRequest committed.
C19_Witness ==
  \E c \in Conns :
    /\ commit[c].done
    /\ calls[c].writer = 0
    /\ calls[c].keys = {"Encapsulated", "Connection", "Date"}
    /\ last[c].op = "finishRequest"

\* The first line of the embedded HTTP header on s ("" when there is none).
EmbeddedFirstLine(s) ==
  IF \E i \in DOMAIN s : s[i].k = "http"
  THEN s[CHOOSE i \in DOMAIN s : s[i].k = "http" /\ \A j \in 1..(i - 1) : s[j].k # "http"].s
  ELSE ""

\* The status line http.Response gets for code.
HTTPStatusLine(code) ==
  "HTTP/1.1 " \o ToString(code) \o " "
    \o (IF HTTPStatusText(code) = "" THEN "status code " \o ToString(code)
        ELSE HTTPStatusText(code))

\* C20: once a bridged writer has written its header, the ICAP writer under it
\* is committed, once, with ICAP status 200, an HTTP response and hasBody, and
\* while the handler runs it is committed only then; the first WriteHeader(code)
\* on the bridge embeds an HTTP response of status code; a WriteHeader on a
\* bridge that has written its header writes nothing and changes nothing; a
\* Write on a bridge that has not does what WriteHeader(200) does and then
\* writes the chunk.
C20_BridgedWriter ==
  /\ [](\A c \in Conns :
          /\ (brw[c].made /\ brw[c].wroteHeader) =>
               /\ commit[c].done /\ commit[c].code = 200
               /\ commit[c].kind = "resp" /\ commit[c].hasBody
               /\ Count(Stream(c), "status") = 1
               /\ Stream(c)[1] = StatusLine(200, "OK")
               /\ ManifestOf(c)[Len(ManifestOf(c))].key = "res-body"
          /\ (brw[c].made /\ pc[c] = "handler") => (commit[c].done <=> brw[c].wroteHeader))
  /\ [][\A c \in Conns :
          /\ (IsCall(c, "B.WriteHeader") /\ ~brw[c].wroteHeader) =>
               /\ brw'[c].wroteHeader
               /\ EmbeddedFirstLine(StreamOf(out'[c])) = HTTPStatusLine(last'[c].code)
          /\ (IsCall(c, "B.WriteHeader") /\ brw[c].wroteHeader) =>
               /\ out'[c] = out[c] /\ w'[c] = w[c]
               /\ commit'[c] = commit[c] /\ brw'[c] = brw[c]
          /\ (IsCall(c, "B.Write") /\ ~brw[c].wroteHeader) =>
               LET s == bridgeWriteHeader(brw[c], w[c], out[c], commit[c], 200)
                   n == last'[c].n
                   old == StreamOf(s.out)
                   new == StreamOf(out'[c])
               IN /\ brw'[c] = s.b /\ commit'[c] = s.commit /\ w'[c] = s.w
                  /\ EmbeddedFirstLine(new) = HTTPStatusLine(200)
                  /\ HasPrefix(new, old)
                  /\ Len(new) = Len(old) + (IF n = 0 THEN 0 ELSE n + 2)
                  /\ n > 0 => new[Len(old) + 1] = ChunkSize(n)]_vars

\* A bridge whose first call embedded a 404 response got a second WriteHeader.
C20_Witness ==
  \E c \in Conns :
    /\ last[c].op = "B.WriteHeader"
    /\ calls[c].writer >= 2
    /\ brw[c].wroteHeader
    /\ EmbeddedFirstLine(Stream(c)) = HTTPStatusLine(404)

\* C21: the status line of a committed response carries the commit's code and
\* a reason phrase that is not empty, the table's phrase when the table has
\* one and "status code N" otherwise; a WriteHeader call on an uncommitted
\* writer commits it whatever the code.
C21_ReasonPhrase ==
  /\ [](\A c \in Conns :
          commit[c].done =>
            LET line == Stream(c)[1]
            IN /\ line.k = "status" /\ line.n = commit[c].code
               /\ line.s # ""
               /\ line.s = IF StatusText(commit[c].code) # "" THEN StatusText(commit[c].code)
                           ELSE "status code " \o ToString(commit[c].code))
  /\ [][\A c \in Conns :
          (IsCall(c, "WriteHeader") /\ ~w[c].wroteHeader) =>
            (commit'[c].done /\ commit'[c].code = last'[c].code /\ w'[c].wroteHeader)]_vars

\* A writer was committed with a code the table does not have.
C21_Witness ==
  \E c \in Conns :
    /\ commit[c].done /\ commit[c].code = 999
    /\ StatusText(999) = ""
    /\ Stream(c)[1] = StatusLine(999, "status code 999")

\* The registered patterns that match the path of c's request.
Matching(c) ==
  LET path == URLPath(w[c].req.RawURL)
  IN {p \in mux : \/ p = path
                  \/ HasSuffix(p, "/") /\ HasPrefix(path, p)}

\* C22: a dispatched request went to the handler of the longest registered
\* pattern that matches its path, an exact pattern matching its own path and
\* a pattern ending in "/" every path it is a prefix of; when none matches the
\* not-found handler ran and the response is committed as 404 without a body.
C22_LongestPattern ==
  \A c \in Conns :
    route[c] # "" =>
      IF Matching(c) = {}
      THEN /\ route[c] = "404"
           /\ commit[c].done /\ commit[c].code = 404 /\ ~commit[c].hasBody
           /\ commit[c].kind = "none"
           /\ Stream(c)[1] = StatusLine(404, "Not Found")
           /\ EncapValue(Stream(c)) = "null-body=0"
           /\ Count(Stream(c), "size") = 0
      ELSE /\ route[c] \in Matching(c)
           /\ \A q \in Matching(c) : Len(q) <= Len(route[c])

\* With "/" and "/golang/" registered, a request for /golang/x went to "/golang/".
C22_Witness ==
  \E c \in Conns :
    /\ {"/", "/golang/"} \subseteq mux
    /\ URLPath(w[c].req.RawURL) = "/golang/x"
    /\ route[c] = "/golang/"

\* C23: when ReadRequest accepts a request, what it has consumed of the
\* encapsulation region is the offset of the last manifest entry, and what is
\* left for the body readers starts there.
C23_ConsumedToLastOffset ==
  \A c \in Conns :
    (HasManifest(c) /\ Accepted(c)) =>
      LET e == Entries(rx[c].encap)
          end == e[Len(e)].off
      IN /\ w[c].req.consumed = end
         /\ w[c].req.b = SubSeq(rx[c].region, end + 1, Len(rx[c].region)) \o rx[c].body

\* The section of c's encapsulation region that the manifest entry i names:
\* from its offset up to the offset of the next entry.
SectionOf(c, i) ==
  LET e == Entries(rx[c].encap)
  IN IF e[i].off <= e[i + 1].off /\ e[i + 1].off <= Len(rx[c].region)
     THEN SubSeq(rx[c].region, e[i].off + 1, e[i + 1].off)
     ELSE <<>>

\* C24: in an accepted request, the HTTP request parser got the section the
\* manifest names req-hdr and the HTTP response parser the section it names
\* res-hdr, in whatever order the manifest has them.
C24_SectionsByManifest ==
  \A c \in Conns :
    (HasManifest(c) /\ Accepted(c)) =>
      LET e == Entries(rx[c].encap)
      IN \A i \in 1..(Len(e) - 1) :
           /\ e[i].key = "req-hdr" => w[c].req.rawReqHdr = SectionOf(c, i)
           /\ e[i].key = "res-hdr" => w[c].req.rawRespHdr = SectionOf(c, i)

\* The manifest of c is one of the protocol's keys closed by opt-body, its
\* only body marker.
OptBodyManifest(c) ==
  /\ HasManifest(c)
  /\ LET e == Entries(rx[c].encap)
     IN /\ e # <<>>
        /\ e[Len(e)].key = "opt-body"
        /\ Markers(e) = {Len(e)}
        /\ \A i \in DOMAIN e : e[i].key \in {"req-hdr", "res-hdr", "opt-body"}

\* C25: a request whose manifest ends in opt-body is accepted under every
\* method, and neither embedded body is a chunked reader on the connection:
\* the bodies that are there return end-of-stream at once.
C25_OptBodyNotStreamed ==
  \A c \in Conns :
    (OptBodyManifest(c) /\ rx[c].reqParses /\ rx[c].respParses) =>
      /\ Accepted(c)
      /\ w[c].req.Request \in {"nil", "empty"}
      /\ w[c].req.Response \in {"nil", "empty"}

\* The keys a manifest may use.
KnownKeys == {"req-hdr", "res-hdr", "req-body", "res-body", "opt-body", "null-body"}

\* C26: a message whose manifest has a key outside the protocol's six, at any
\* position, and a message without an Encapsulated header, under any method,
\* is rejected: readRequest returns an error and no request.
C26_UnknownKeyOrNoManifest ==
  \A c \in Conns :
    (/\ rx[c] # NoMessage /\ ~rx[c].eof
     /\ \/ rx[c].encap = ""
        \/ \E i \in DOMAIN Entries(rx[c].encap) :
             Entries(rx[c].encap)[i].key \notin KnownKeys) =>
      /\ Rejected(c)
      /\ served[c] = 0 /\ w[c].req = NoRequest
      /\ pc[c] \in {"recovered", "closed"}

\* An OPTIONS message whose manifest of well-formed items has the unknown key
\* in its last place was rejected for that key.
C26_Witness ==
  \E c \in Conns :
    /\ HasManifest(c)
    /\ SplitN(rx[c].line, " ", 3)[1] = "OPTIONS"
    /\ Len(Entries(rx[c].encap)) = MaxItems
    /\ Entries(rx[c].encap)[MaxItems].key \notin KnownKeys
    /\ rerr[c] = "invalid key for Encapsulated: header"
    /\ w[c].req = NoRequest

C28_PanicWritesNothing ==
  /\ [][\A c \in Conns :
          (pc[c] = "handler" /\ pc'[c] = "recovered") =>
            /\ last'[c].op = "panic"
            /\ rwc'[c] = "closed"
            /\ out'[c] = out[c]
            /\ w'[c] = w[c] /\ commit'[c] = commit[c]]_vars
  /\ [][\A c \in Conns :
          (pc[c] = "recovered" /\ last[c].op = "panic") =>
            (pc'[c] = "recovered" /\ out'[c] = out[c] /\ w'[c] = w[c])]_vars
  /\ [](\A c \in Conns :
          (pc[c] = "recovered" /\ last[c].op = "panic") =>
            /\ HasPrefix(Stream(c), out[c].wire)
            /\ (served[c] = 1 /\ ~commit[c].done) => out[c].wire = <<>>
            /\ (served[c] = 1 /\ w[c].cw = "open") =>
                 \A i \in DOMAIN Stream(c) : Stream(c)[i] # ChunkSize(0))

\* A handler panicked after it committed with a body and wrote: part of the
\* response reached the connection, the rest is in conn.buf, and the chunk
\* sink is open.
C28_Witness ==
  \E c \in Conns :
    /\ pc[c] = "recovered" /\ last[c].op = "panic" /\ rwc[c] = "closed"
    /\ commit[c].done /\ w[c].cw = "open"
    /\ out[c].wire # <<>> /\ out[c].buf # <<>>
    /\ Count(out[c].buf, "data") > 0

\* C29: while the HTTP handler has called neither Write nor WriteHeader on
\* the bridge, the ICAP writer under it is uncommitted; when it returns so,
\* what finishRequest sends is an ICAP 200 with Encapsulated: null-body=0 and
\* nothing embedded; an embedded HTTP response is on the stream only after a
\* Write or WriteHeader on the bridge.
C29_BridgeUnused ==
  \A c \in Conns :
    /\ (brw[c].made /\ ~brw[c].wroteHeader /\ pc[c] = "handler") =>
         (~commit[c].done /\ ~w[c].wroteHeader /\ Stream(c) = <<>>)
    /\ (brw[c].made /\ calls[c].writer = 0 /\ last[c].op = "finishRequest") =>
         LET s == Stream(c)
         IN /\ ~brw[c].wroteHeader
            /\ commit[c] = [done |-> TRUE, code |-> 200, kind |-> "none",
                            hasBody |-> FALSE, hdrLen |-> 0]
            /\ s[1] = StatusLine(200, "OK")
            /\ Count(s, "status") = 1
            /\ EncapValue(s) = "null-body=0"
            /\ FirstBlank(s) = Len(s)
            /\ Count(s, "http") = 0 /\ Count(s, "size") = 0 /\ Count(s, "data") = 0
    /\ (brw[c].made /\ Count(Stream(c), "http") > 0) =>
         (brw[c].wroteHeader /\ calls[c].writer > 0)

\* An HTTP handler set a header on the bridge and returned without a Write
\* or WriteHeader call: finishRequest committed.
C29_Witness ==
  \E c \in Conns :
    /\ brw[c].made /\ ~brw[c].wroteHeader
    /\ last[c].op = "finishRequest"
    /\ calls[c].writer = 0 /\ calls[c].header > 0
    /\ commit[c].done
    /\ Count(Stream(c), "status") = 1

====
